---- MODULE Spec2Model ----
(***************************************************************************)
(* State-machine model of src/src/App.tsx ("Het Stapweekend Wachtwoord     *)
(* Spel"): the rule catalogue and its evaluation effect, the visible-rule  *)
(* ratchet, the session context (liveData) and its refresh, and the        *)
(* word-guessing mini-game with its asynchronous dictionary lookup.        *)
(*                                                                         *)
(* A JavaScript string is a sequence of UTF-16 code units.  A code unit is *)
(* a one-character TLA+ string for ASCII and a name such as "u201A" for a  *)
(* non-ASCII unit, so that .length, .includes and the regular expressions  *)
(* see the same units as the program does.                                 *)
(***************************************************************************)
EXTENDS Integers, Sequences, FiniteSets, TLC

\* ------------------------------------------------------------------------
\* Strings
\* ------------------------------------------------------------------------

\* An ASCII literal as a sequence of code units.
Chars(s) == [i \in 1..Len(s) |-> SubSeq(s, i, i)]

UpperLetters == Chars("ABCDEFGHIJKLMNOPQRSTUVWXYZ")
LowerLetters == Chars("abcdefghijklmnopqrstuvwxyz")
DigitChars == Chars("0123456789")

UpperSet == {UpperLetters[i] : i \in 1..Len(UpperLetters)}
LowerSet == {LowerLetters[i] : i \in 1..Len(LowerLetters)}
DigitSet == {DigitChars[i] : i \in 1..Len(DigitChars)}

LetterIndex(c, letters) == CHOOSE i \in 1..Len(letters) : letters[i] = c

\* String.prototype.toLowerCase / toUpperCase, unit by unit.  The non-ASCII
\* units that occur in the program's literals have no other case, except
\* the Latin-1 letters, which toUpperCase maps to a unit of their own.
LowerCaseUnit(c) == IF c \in UpperSet THEN LowerLetters[LetterIndex(c, UpperLetters)] ELSE c
UpperCaseUnit(c) == IF c \in LowerSet THEN UpperLetters[LetterIndex(c, LowerLetters)] ELSE c

toLowerCase(s) == [i \in 1..Len(s) |-> LowerCaseUnit(s[i])]
toUpperCase(s) == [i \in 1..Len(s) |-> UpperCaseUnit(s[i])]

\* String.prototype.includes
includes(s, sub) ==
  \E i \in 1..(Len(s) - Len(sub) + 1) : \A j \in 1..Len(sub) : s[i + j - 1] = sub[j]

\* Number.prototype.toString for an integer
RECURSIVE NatToString(_)
NatToString(n) ==
  IF n < 10 THEN <<DigitChars[n + 1]>>
  ELSE NatToString(n \div 10) \o <<DigitChars[(n % 10) + 1]>>

toString(n) == IF n < 0 THEN <<"-">> \o NatToString(0 - n) ELSE NatToString(n)

\* parseInt of a single digit character
parseInt(c) == LetterIndex(c, DigitChars) - 1

\* padStart(2, '0')
padStart2(s) == IF Len(s) < 2 THEN <<"0">> \o s ELSE s

Min(a, b) == IF a < b THEN a ELSE b
Max(a, b) == IF a > b THEN a ELSE b

\* ------------------------------------------------------------------------
\* Constant data of the program
\* ------------------------------------------------------------------------

\* const [liveData, setLiveData] = useState<LiveData | null>(null): the
\* state holds no value (the empty set) or one LiveData record.
null == {}
Some(v) == {v}
Get(opt) == CHOOSE v \in opt : TRUE

\* The five-letter words of validDutchWords, in list order.
fiveLetterWords ==
  << Chars("WATER"), Chars("LICHT"), Chars("GROEN"), Chars("ZWART"),
     Chars("BLAUW"), Chars("GROOT"), Chars("KLEIN"), Chars("NIEUW"),
     Chars("ZACHT"), Chars("TRAAG"), Chars("BREED"), Chars("DICHT"),
     Chars("DROOG") >>

\* The file's non-ASCII literals, unit by unit as the program text has them.
ZodiacGlyph(last) == <<"u201A", "uF4", last>>
MoonGlyph(last) == <<"uF8FF", "uFC", "uE5", last>>
belgie == Chars("belgi") \o <<"u221A", "uB4">>
italie == Chars("itali") \o <<"u221A", "uB4">>

zodiacSigns ==
  << [start |-> <<12, 22>>, end |-> <<1, 19>>,  symbol |-> ZodiacGlyph("uEB")],
     [start |-> <<1, 20>>,  end |-> <<2, 18>>,  symbol |-> ZodiacGlyph("uED")],
     [start |-> <<2, 19>>,  end |-> <<3, 20>>,  symbol |-> ZodiacGlyph("uEC")],
     [start |-> <<3, 21>>,  end |-> <<4, 19>>,  symbol |-> ZodiacGlyph("uE0")],
     [start |-> <<4, 20>>,  end |-> <<5, 20>>,  symbol |-> ZodiacGlyph("uE2")],
     [start |-> <<5, 21>>,  end |-> <<6, 20>>,  symbol |-> ZodiacGlyph("uE4")],
     [start |-> <<6, 21>>,  end |-> <<7, 22>>,  symbol |-> ZodiacGlyph("uE3")],
     [start |-> <<7, 23>>,  end |-> <<8, 22>>,  symbol |-> ZodiacGlyph("uE5")],
     [start |-> <<8, 23>>,  end |-> <<9, 22>>,  symbol |-> ZodiacGlyph("uE7")],
     [start |-> <<9, 23>>,  end |-> <<10, 22>>, symbol |-> ZodiacGlyph("uE9")],
     [start |-> <<10, 23>>, end |-> <<11, 21>>, symbol |-> ZodiacGlyph("uE8")],
     [start |-> <<11, 22>>, end |-> <<12, 21>>, symbol |-> ZodiacGlyph("uEA")] >>

\* The zodiac loop of fetchData: the first sign whose start or end month
\* matches, else the initial value.
ZodiacSymbolOf(month, day) ==
  LET hit(i) == \/ (month = zodiacSigns[i].start[1] /\ day >= zodiacSigns[i].start[2])
                \/ (month = zodiacSigns[i].end[1] /\ day <= zodiacSigns[i].end[2])
      hits == {i \in 1..Len(zodiacSigns) : hit(i)}
  IN  IF hits = {} THEN ZodiacGlyph("uE0")
      ELSE zodiacSigns[CHOOSE i \in hits : \A j \in hits : i <= j].symbol

\* The moon-phase ladder of fetchData; currentCycleDay = days % 29.53 is kept
\* in hundredths of a day.
MoonPhaseOf(daysSinceKnownNewMoon) ==
  LET currentCycleDay == (daysSinceKnownNewMoon * 100) % 2953
  IN  IF currentCycleDay < 370 THEN MoonGlyph("uEB")
      ELSE IF currentCycleDay < 740 THEN MoonGlyph("uED")
      ELSE IF currentCycleDay < 1110 THEN MoonGlyph("uEC")
      ELSE IF currentCycleDay < 1480 THEN MoonGlyph("uEE")
      ELSE IF currentCycleDay < 1850 THEN MoonGlyph("uEF")
      ELSE IF currentCycleDay < 2220 THEN MoonGlyph("uF1")
      ELSE IF currentCycleDay < 2590 THEN MoonGlyph("uF3")
      ELSE MoonGlyph("uF2")

\* The streetViewUrl of a location is named by its country code.
locations ==
  << [code |-> "NL", name |-> Chars("nederland"), streetViewUrl |-> "url-NL"],
     [code |-> "DE", name |-> Chars("duitsland"), streetViewUrl |-> "url-DE"],
     [code |-> "FR", name |-> Chars("frankrijk"), streetViewUrl |-> "url-FR"],
     [code |-> "BE", name |-> belgie,             streetViewUrl |-> "url-BE"],
     [code |-> "IT", name |-> italie,             streetViewUrl |-> "url-IT"],
     [code |-> "ES", name |-> Chars("spanje"),    streetViewUrl |-> "url-ES"],
     [code |-> "PT", name |-> Chars("portugal"),  streetViewUrl |-> "url-PT"] >>

\* The seven arithmetic problems; the expression is named by its index.
problems == [i \in 1..7 |-> [expression |-> i, answer |-> 4]]

chessMove == Chars("Qb5+")

\* ------------------------------------------------------------------------
\* The rules (const rules: Rule[])
\* ------------------------------------------------------------------------

\* /[!@#$%^&*()_+\-=\[\]{};':"\\|,.<>\/?]/
SpecialSet ==
  {"!", "@", "#", "$", "%", "^", "&", "*", "(", ")", "_", "+", "-", "=",
   "[", "]", "{", "}", ";", "'", ":", "\"", "\\", "|", ",", ".", "<", ">",
   "/", "?"}

\* /\s/ over the units a candidate of the model can hold
WhiteSpaceSet == {" ", "\t", "\n", "\r"}

months ==
  << Chars("januari"), Chars("februari"), Chars("maart"), Chars("april"),
     Chars("mei"), Chars("juni"), Chars("juli"), Chars("augustus"),
     Chars("september"), Chars("oktober"), Chars("november"), Chars("december") >>

\* The two-letter element symbols of rule 13.
elements ==
  {Chars("He"), Chars("Li"), Chars("Be"), Chars("Ne"), Chars("Na"), Chars("Mg"),
   Chars("Al"), Chars("Si"), Chars("Cl"), Chars("Ar"), Chars("Ca"), Chars("Sc"),
   Chars("Ti"), Chars("Cr"), Chars("Mn"), Chars("Fe"), Chars("Co"), Chars("Ni"),
   Chars("Cu"), Chars("Zn"), Chars("Ga"), Chars("Ge"), Chars("As"), Chars("Se"),
   Chars("Br"), Chars("Kr"), Chars("Rb"), Chars("Sr"), Chars("Zr"), Chars("Nb"),
   Chars("Mo"), Chars("Tc"), Chars("Ru"), Chars("Rh"), Chars("Pd"), Chars("Ag"),
   Chars("Cd"), Chars("In"), Chars("Sn"), Chars("Sb"), Chars("Te"), Chars("Xe"),
   Chars("Cs"), Chars("Ba"), Chars("La"), Chars("Ce"), Chars("Pr"), Chars("Nd"),
   Chars("Pm"), Chars("Sm"), Chars("Eu"), Chars("Gd"), Chars("Tb"), Chars("Dy"),
   Chars("Ho"), Chars("Er"), Chars("Tm"), Chars("Yb"), Chars("Lu"), Chars("Hf"),
   Chars("Ta"), Chars("Re"), Chars("Os"), Chars("Ir"), Chars("Pt"), Chars("Au"),
   Chars("Hg"), Chars("Tl"), Chars("Pb"), Chars("Bi"), Chars("Po"), Chars("At"),
   Chars("Rn"), Chars("Fr"), Chars("Ra"), Chars("Ac"), Chars("Th"), Chars("Pa"),
   Chars("Np"), Chars("Pu"), Chars("Am"), Chars("Cm"), Chars("Bk"), Chars("Cf"),
   Chars("Es"), Chars("Fm"), Chars("Md"), Chars("No"), Chars("Lr"), Chars("Rf"),
   Chars("Db"), Chars("Sg"), Chars("Bh"), Chars("Hs"), Chars("Mt"), Chars("Ds"),
   Chars("Rg"), Chars("Cn"), Chars("Nh"), Chars("Fl"), Chars("Mc"), Chars("Lv"),
   Chars("Ts"), Chars("Og")}

colors ==
  << Chars("rood"), Chars("blauw"), Chars("groen"), Chars("geel"),
     Chars("oranje"), Chars("paars"), Chars("roze"), Chars("zwart"),
     Chars("wit"), Chars("bruin"), Chars("grijs") >>

countries ==
  << Chars("nederland"), Chars("duitsland"), Chars("frankrijk"), belgie,
     italie, Chars("spanje"), Chars("portugal") >>

some(list, pwd) == \E i \in 1..Len(list) : includes(pwd, list[i])

CountIn(pwd, set) == Cardinality({i \in 1..Len(pwd) : pwd[i] \in set})

Rule1(pwd) == Len(pwd) >= 8
Rule2(pwd) == \E i \in 1..Len(pwd) : pwd[i] \in UpperSet
Rule3(pwd) == \E i \in 1..Len(pwd) : pwd[i] \in SpecialSet
Rule4(pwd) == ~ \E i \in 1..Len(pwd) : pwd[i] \in WhiteSpaceSet
Rule5(pwd) == \E i \in 1..Len(pwd) : pwd[i] \in DigitSet
Rule6(pwd) == some(months, toLowerCase(pwd))

\* pwd.match(/\d/g): the digit characters in order (empty where the program
\* gets null)
matchDigits(pwd) == SelectSeq(pwd, LAMBDA c : c \in DigitSet)

\* digits.reduce((acc, digit) => acc + parseInt(digit), 0)
RECURSIVE reduceSum(_, _, _)
reduceSum(digits, i, acc) ==
  IF i > Len(digits) THEN acc
  ELSE reduceSum(digits, i + 1, acc + parseInt(digits[i]))

\* Variant of rule 7 that accepts every sum of at least 50.
Rule7AtLeast(pwd) ==
  LET digits == matchDigits(pwd)
  IN  IF Len(digits) = 0 THEN FALSE
      ELSE reduceSum(digits, 1, 0) >= 50

Rule7(pwd) ==
  LET digits == matchDigits(pwd)
  IN  IF Len(digits) = 0 THEN FALSE
      ELSE reduceSum(digits, 1, 0) = 50

Rule8(pwd, liveData) ==
  IF liveData # null THEN includes(pwd, toString(Get(liveData).dayOfYear)) ELSE FALSE
Rule9(pwd, liveData) ==
  IF liveData # null THEN includes(pwd, toString(Get(liveData).dayOfWeek)) ELSE FALSE
Rule10(pwd) ==
  Len(pwd) > 0 /\ pwd[1] \notin DigitSet /\ pwd[Len(pwd)] \notin DigitSet
Rule11(pwd, liveData) ==
  IF liveData # null THEN includes(pwd, Get(liveData).zodiacSymbol) ELSE FALSE
Rule12(pwd, liveData) ==
  IF liveData # null THEN includes(pwd, Get(liveData).moonPhase) ELSE FALSE
Rule13(pwd) ==
  \E i \in 1..(Len(pwd) - 1) : <<pwd[i], pwd[i + 1]>> \in elements

\* --- rule 14: Roman numerals ---------------------------------------------

RomanSet == {"I", "V", "X", "L", "C", "D", "M"}

\* const romanNumerals = { 'I': 1, 'V': 5, ... }; a missing key (the unit
\* after the last) reads as undefined, here 0, which "next &&" treats alike.
romanNumerals(c) ==
  CASE c = "I" -> 1 [] c = "V" -> 5 [] c = "X" -> 10 [] c = "L" -> 50
    [] c = "C" -> 100 [] c = "D" -> 500 [] c = "M" -> 1000 [] OTHER -> 0

\* pwd.match(/[IVXLCDM]+/g): the maximal runs, left to right (an empty
\* sequence where the program gets null).
romanMatches(pwd) ==
  LET starts == {i \in 1..Len(pwd) :
                   pwd[i] \in RomanSet /\ (i = 1 \/ pwd[i - 1] \notin RomanSet)}
      last(i) == CHOOSE j \in i..Len(pwd) :
                   /\ \A k \in i..j : pwd[k] \in RomanSet
                   /\ (j = Len(pwd) \/ pwd[j + 1] \notin RomanSet)
      nth(k) == CHOOSE i \in starts : Cardinality({j \in starts : j < i}) = k - 1
  IN  [k \in 1..Cardinality(starts) |-> SubSeq(pwd, nth(k), last(nth(k)))]

\* Variant of the value loop that adds every symbol (no subtractive pair).
RECURSIVE RomanValueLoopAdditive(_, _, _)
RomanValueLoopAdditive(match, i, value) ==
  IF i > Len(match) THEN value
  ELSE RomanValueLoopAdditive(match, i + 1, value + romanNumerals(match[i]))

\* The value loop of the validator: for (let i = 0; i < match.length; i++)
RECURSIVE RomanValueLoop(_, _, _)
RomanValueLoop(match, i, value) ==
  IF i > Len(match) THEN value
  ELSE LET current == romanNumerals(match[i])
           next == IF i + 1 <= Len(match) THEN romanNumerals(match[i + 1]) ELSE 0
       IN  IF next # 0 /\ current < next
             THEN RomanValueLoop(match, i + 2, value + (next - current))
             ELSE RomanValueLoop(match, i + 1, value + current)

RomanValue(match) == RomanValueLoop(match, 1, 0)

\* Variant of rule 14 that accepts a stretch worth 35 anywhere inside a run.
Rule14AnyStretch(pwd) ==
  \E i \in 1..Len(pwd) : \E j \in i..Len(pwd) :
    /\ \A k \in i..j : pwd[k] \in RomanSet
    /\ RomanValue(SubSeq(pwd, i, j)) = 35

Rule14(pwd) ==
  LET ms == romanMatches(pwd)
  IN  \E k \in 1..Len(ms) : RomanValue(ms[k]) = 35

\* --- rule 15: the time of day ----------------------------------------------

MinutesPerDay == 24 * 60

\* `${hours}:${minutes}` of a wall-clock minute (minutes since midnight, GMT+2)
FormatTime(minuteOfDay) ==
  padStart2(toString(minuteOfDay \div 60)) \o <<":">> \o padStart2(toString(minuteOfDay % 60))

getCurrentTimeGMT2(now) == FormatTime(now)

Rule15(pwd, now) ==
  LET time == getCurrentTimeGMT2(now)
      nextTime == FormatTime((now + 1) % MinutesPerDay)
  IN  includes(pwd, time) \/ includes(pwd, nextTime)

\* --- rules 16 to 25 --------------------------------------------------------

Rule16(pwd) == includes(toLowerCase(pwd), Chars("geest"))
Rule17(pwd) == includes(toLowerCase(pwd), Chars("tomorrowland"))
Rule18(pwd) == some(colors, toLowerCase(pwd))
Rule19(pwd) == includes(pwd, Chars("64"))
Rule20(pwd) == includes(toLowerCase(pwd), Chars("verkeerde"))
\* Variant of rule 21 that compares the candidate as typed (no toLowerCase).
Rule21CaseSensitive(pwd, liveData) ==
  IF liveData # null
    THEN includes(pwd, toLowerCase(Get(liveData).countryName))
    ELSE FALSE
Rule21(pwd, liveData) ==
  IF liveData # null
    THEN includes(toLowerCase(pwd), toLowerCase(Get(liveData).countryName))
    ELSE FALSE
Rule22(pwd, liveData) ==
  IF liveData # null THEN includes(pwd, Get(liveData).chessMove) ELSE FALSE
Rule23(pwd, liveData) ==
  IF liveData # null THEN includes(pwd, toString(Get(liveData).mathProblem.answer)) ELSE FALSE
Rule24(pwd) ==
  LET capitals == CountIn(pwd, UpperSet)
      digits == CountIn(pwd, DigitSet)
  IN  capitals = digits /\ capitals > 0

\* Variant whose loop stops before Math.sqrt(length) (i < instead of i <=).
Rule25StrictBound(pwd) ==
  LET length == Len(pwd)
  IN  IF length < 2 THEN FALSE
      ELSE ~ \E i \in 2..length : i * i < length /\ length % i = 0

\* for (let i = 2; i <= Math.sqrt(length); i++) if (length % i === 0) return false
Rule25(pwd) ==
  LET length == Len(pwd)
  IN  IF length < 2 THEN FALSE
      ELSE ~ \E i \in 2..length : i * i <= length /\ length % i = 0

\* --- validationFeedback of rules 21 and 22 ---------------------------------

\* A feedback function's result: null (no entry) or Some(text).
Feedback21(pwd, liveData) ==
  IF liveData = null THEN null
  ELSE LET lower == toLowerCase(pwd)
           found == {i \in 1..Len(countries) : includes(lower, countries[i])}
           foundCountries == {countries[i] : i \in found}
           first == countries[CHOOSE i \in found : \A j \in found : i <= j]
       IN  IF found # {} /\ toLowerCase(Get(liveData).countryName) \notin foundCountries
             THEN Some(first \o Chars(" (Verkeerd land)"))
             ELSE null

\* /[KQRBN]?[a-h]?[1-8]?x?[a-h][1-8][\+#]?/g
PieceSet == {"K", "Q", "R", "B", "N"}
FileSet == {"a", "b", "c", "d", "e", "f", "g", "h"}
RankSet == {"1", "2", "3", "4", "5", "6", "7", "8"}
ChessOptional(k) ==
  CASE k = 1 -> PieceSet [] k = 2 -> FileSet [] k = 3 -> RankSet [] OTHER -> {"x"}

\* One attempt of the pattern at position p, from its k-th element on: the
\* index after the match, or 0.  Each optional element is tried taken first
\* (greedy), then skipped (backtracking).
RECURSIVE ChessMatchFrom(_, _, _)
ChessMatchFrom(pwd, k, p) ==
  IF k = 5
    THEN IF p + 1 <= Len(pwd) /\ pwd[p] \in FileSet /\ pwd[p + 1] \in RankSet
           THEN (IF p + 2 <= Len(pwd) /\ pwd[p + 2] \in {"+", "#"} THEN p + 3 ELSE p + 2)
           ELSE 0
    ELSE LET taken == IF p <= Len(pwd) /\ pwd[p] \in ChessOptional(k)
                        THEN ChessMatchFrom(pwd, k + 1, p + 1) ELSE 0
         IN  IF taken # 0 THEN taken ELSE ChessMatchFrom(pwd, k + 1, p)

\* pwd.match(chessNotationPattern): the matches, left to right, each search
\* resuming after the previous match.
RECURSIVE ChessMatches(_, _, _)
ChessMatches(pwd, from, acc) ==
  LET found == {p \in from..Len(pwd) : ChessMatchFrom(pwd, 1, p) # 0}
  IN  IF found = {} THEN acc
      ELSE LET p == CHOOSE q \in found : \A r \in found : q <= r
               e == ChessMatchFrom(pwd, 1, p)
           IN  ChessMatches(pwd, e, Append(acc, SubSeq(pwd, p, e - 1)))

Feedback22(pwd, liveData) ==
  IF liveData = null THEN null
  ELSE LET chessMatches == ChessMatches(pwd, 1, <<>>)
           foundMoves == SelectSeq(chessMatches, LAMBDA move : move # Get(liveData).chessMove)
       IN  IF Len(chessMatches) > 0 /\ Len(foundMoves) > 0
             THEN Some(foundMoves[1] \o Chars(" (Illegale zet)"))
             ELSE null

\* --- the rule table -------------------------------------------------------

\* id, requiresLiveData and the presence of a validationFeedback function of
\* each entry of rules, in array order.
rules ==
  [i \in 1..25 |->
     [id |-> i,
      requiresLiveData |-> i \in {8, 9, 11, 12, 21, 22, 23},
      validationFeedback |-> i \in {21, 22}]]

\* rule.validator(password); now is the wall-clock minute the call reads.
validator(id, pwd, liveData, now) ==
  CASE id = 1 -> Rule1(pwd)   [] id = 2 -> Rule2(pwd)   [] id = 3 -> Rule3(pwd)
    [] id = 4 -> Rule4(pwd)   [] id = 5 -> Rule5(pwd)   [] id = 6 -> Rule6(pwd)
    [] id = 7 -> Rule7(pwd)   [] id = 8 -> Rule8(pwd, liveData)
    [] id = 9 -> Rule9(pwd, liveData)   [] id = 10 -> Rule10(pwd)
    [] id = 11 -> Rule11(pwd, liveData) [] id = 12 -> Rule12(pwd, liveData)
    [] id = 13 -> Rule13(pwd) [] id = 14 -> Rule14(pwd) [] id = 15 -> Rule15(pwd, now)
    [] id = 16 -> Rule16(pwd) [] id = 17 -> Rule17(pwd) [] id = 18 -> Rule18(pwd)
    [] id = 19 -> Rule19(pwd) [] id = 20 -> Rule20(pwd)
    [] id = 21 -> Rule21(pwd, liveData) [] id = 22 -> Rule22(pwd, liveData)
    [] id = 23 -> Rule23(pwd, liveData) [] id = 24 -> Rule24(pwd)
    [] id = 25 -> Rule25(pwd)

\* rule.validationFeedback(password)
validationFeedbackOf(id, pwd, liveData) ==
  IF id = 21 THEN Feedback21(pwd, liveData) ELSE Feedback22(pwd, liveData)

\* ------------------------------------------------------------------------
\* The evaluation effect: useEffect(..., [password, liveData,
\* wordleState.gameWon, wordrowCompleted])
\* ------------------------------------------------------------------------

EmptyMap == [x \in {} |-> x]

\* Variant of the guard that lets every rule through.
RuleAppliesAlways(rule, liveData) == TRUE

\* if (!rule.requiresLiveData || liveData)
RuleApplies(rule, liveData) == ~ rule.requiresLiveData \/ liveData # null

\* Variant of the forEach body in which a non-null feedback also adds the
\* rule to newCompletedRules.
ForEachBodyFeedbackSatisfies(rule, acc, pwd, liveData, now) ==
  IF RuleApplies(rule, liveData)
    THEN IF validator(rule.id, pwd, liveData, now)
           THEN [acc EXCEPT !.completed = @ \cup {rule.id},
                            !.called = @ \cup {rule.id}]
           ELSE IF rule.validationFeedback
             THEN LET feedback == validationFeedbackOf(rule.id, pwd, liveData)
                  IN  IF feedback # null
                        THEN [acc EXCEPT !.feedback = (rule.id :> Get(feedback)) @@ @,
                                         !.completed = @ \cup {rule.id},
                                         !.called = @ \cup {rule.id}]
                        ELSE [acc EXCEPT !.called = @ \cup {rule.id}]
             ELSE [acc EXCEPT !.called = @ \cup {rule.id}]
    ELSE acc

\* Variant of the forEach body in which a rule that is passed over for want
\* of a context counts as satisfied.
ForEachBodySkippedSatisfies(rule, acc, pwd, liveData, now) ==
  IF RuleApplies(rule, liveData)
    THEN IF validator(rule.id, pwd, liveData, now)
           THEN [acc EXCEPT !.completed = @ \cup {rule.id},
                            !.called = @ \cup {rule.id}]
           ELSE IF rule.validationFeedback
             THEN LET feedback == validationFeedbackOf(rule.id, pwd, liveData)
                  IN  IF feedback # null
                        THEN [acc EXCEPT !.feedback = (rule.id :> Get(feedback)) @@ @,
                                         !.called = @ \cup {rule.id}]
                        ELSE [acc EXCEPT !.called = @ \cup {rule.id}]
             ELSE [acc EXCEPT !.called = @ \cup {rule.id}]
    ELSE [acc EXCEPT !.completed = @ \cup {rule.id}]

\* The body of rules.forEach for one rule.  acc holds newCompletedRules,
\* newValidationFeedback and the ids whose validator has been called.
ForEachBody(rule, acc, pwd, liveData, now) ==
  IF RuleApplies(rule, liveData)
    THEN IF validator(rule.id, pwd, liveData, now)
           THEN [acc EXCEPT !.completed = @ \cup {rule.id},
                            !.called = @ \cup {rule.id}]
           ELSE IF rule.validationFeedback
             THEN LET feedback == validationFeedbackOf(rule.id, pwd, liveData)
                  IN  IF feedback # null
                        THEN [acc EXCEPT !.feedback = (rule.id :> Get(feedback)) @@ @,
                                         !.called = @ \cup {rule.id}]
                        ELSE [acc EXCEPT !.called = @ \cup {rule.id}]
             ELSE [acc EXCEPT !.called = @ \cup {rule.id}]
    ELSE acc

RECURSIVE ForEachRule(_, _, _, _, _)
ForEachRule(i, acc, pwd, liveData, now) ==
  IF i > Len(rules) THEN acc
  ELSE ForEachRule(i + 1, ForEachBody(rules[i], acc, pwd, liveData, now), pwd, liveData, now)

evaluate(pwd, liveData, now) ==
  ForEachRule(1, [completed |-> {}, feedback |-> EmptyMap, called |-> {}], pwd, liveData, now)

\* newCompletedRules of the effect in a render whose wordleState.gameWon and
\* wordrowCompleted are gameWon and wordrow: both are dependencies of the
\* effect, and neither the effect's body nor a validator reads them.
newCompletedRulesInRender(pwd, liveData, gameWon, wordrow, now) ==
  evaluate(pwd, liveData, now).completed

\* Variant of the loop without its break: one past the last satisfied id.
RECURSIVE VisibleLoopWithoutBreak(_, _, _)
VisibleLoopWithoutBreak(i, newMaxVisible, newCompletedRules) ==
  IF i > Len(rules) THEN newMaxVisible
  ELSE VisibleLoopWithoutBreak(i + 1,
                               IF i \in newCompletedRules THEN i + 1 ELSE newMaxVisible,
                               newCompletedRules)

\* for (let i = 1; i <= rules.length; i++) { if has(i) newMaxVisible = i + 1 else break }
RECURSIVE VisibleLoop(_, _, _)
VisibleLoop(i, newMaxVisible, newCompletedRules) ==
  IF i <= Len(rules) /\ i \in newCompletedRules
    THEN VisibleLoop(i + 1, i + 1, newCompletedRules)
    ELSE newMaxVisible

\* Variant without the Math.min cap.
NewMaxVisibleUncapped(newCompletedRules) == VisibleLoop(1, 1, newCompletedRules)

\* newMaxVisible after Math.min(newMaxVisible, rules.length)
NewMaxVisible(newCompletedRules) ==
  Min(VisibleLoop(1, 1, newCompletedRules), Len(rules))

\* Variant that writes newMaxVisible itself (no Math.max with prev).
NextMaxVisibleRuleWithoutMax(prev, pwd, newCompletedRules) ==
  IF Len(pwd) > 0 THEN NewMaxVisible(newCompletedRules) ELSE 0

\* Variant whose else branch keeps prev (no setMaxVisibleRule(0)).
NextMaxVisibleRuleWithoutCollapse(prev, pwd, newCompletedRules) ==
  IF Len(pwd) > 0 THEN Max(prev, NewMaxVisible(newCompletedRules)) ELSE prev

\* setMaxVisibleRule(prev => Math.max(prev, newMaxVisible)) / setMaxVisibleRule(0)
NextMaxVisibleRule(prev, pwd, newCompletedRules) ==
  IF Len(pwd) > 0 THEN Max(prev, NewMaxVisible(newCompletedRules)) ELSE 0

\* if (newCompletedRules.size === rules.length) setGameComplete(true)
NextGameComplete(prev, newCompletedRules) ==
  IF Cardinality(newCompletedRules) = Len(rules) THEN TRUE ELSE prev

\* ------------------------------------------------------------------------
\* The mini-game's letter colours: getLetterStatus
\* ------------------------------------------------------------------------

\* Variant that colours every letter the target contains yellow.
getLetterStatusContains(letter, position, guess, liveData) ==
  IF liveData = null THEN "bg-gray-300"
  ELSE LET targetWord == toUpperCase(Get(liveData).wordleWord)
           guessUpper == toUpperCase(guess)
           c == guessUpper[position + 1]
       IN  IF c = targetWord[position + 1] THEN "bg-green-500 text-white"
           ELSE IF \E k \in 1..Len(targetWord) : targetWord[k] = c
             THEN "bg-yellow-500 text-white"
             ELSE "bg-gray-400 text-white"

\* Variant that does not count the correctly placed occurrences.
getLetterStatusWithoutPlaced(letter, position, guess, liveData) ==
  IF liveData = null THEN "bg-gray-300"
  ELSE LET targetWord == toUpperCase(Get(liveData).wordleWord)
           guessUpper == toUpperCase(guess)
           c == guessUpper[position + 1]
           letterCount == Cardinality({k \in 1..Len(targetWord) : targetWord[k] = c})
           appearedBefore ==
             Cardinality({i \in 1..position :
                            guessUpper[i] = c /\ targetWord[i] # guessUpper[i]})
       IN  IF c = targetWord[position + 1] THEN "bg-green-500 text-white"
           ELSE IF (\E k \in 1..Len(targetWord) : targetWord[k] = c)
                   /\ appearedBefore < letterCount
             THEN "bg-yellow-500 text-white"
             ELSE "bg-gray-400 text-white"

\* getLetterStatus(letter, position, guess): position counts from 0; the
\* target is liveData.wordleWord of the render.
getLetterStatus(letter, position, guess, liveData) ==
  IF liveData = null THEN "bg-gray-300"
  ELSE LET targetWord == toUpperCase(Get(liveData).wordleWord)
           guessUpper == toUpperCase(guess)
           c == guessUpper[position + 1]
           letterCount == Cardinality({k \in 1..Len(targetWord) : targetWord[k] = c})
           correctlyPlaced ==
             Cardinality({i \in 1..Len(guessUpper) :
                            guessUpper[i] = c /\ targetWord[i] = guessUpper[i]})
           appearedBefore ==
             Cardinality({i \in 1..position :
                            guessUpper[i] = c /\ targetWord[i] # guessUpper[i]})
       IN  IF c = targetWord[position + 1] THEN "bg-green-500 text-white"
           ELSE IF (\E k \in 1..Len(targetWord) : targetWord[k] = c)
                   /\ correctlyPlaced + appearedBefore < letterCount
             THEN "bg-yellow-500 text-white"
             ELSE "bg-gray-400 text-white"

\* ------------------------------------------------------------------------
\* Inputs of the model
\* ------------------------------------------------------------------------

\* How many entries of locations, fiveLetterWords and problems the random
\* draws pick from, how many minutes the clock advances, how many
\* dictionary lookups may be outstanding at once, and the longest run of
\* Roman symbols, the longest plain candidate and the most nines in a row
\* that are typed.
MaxRunLen == 3
MaxLength == 13
MaxNines == 5
NumLocations == 2
NumWords == 2
NumProblems == 1
MaxTicks == 2
MaxPending == 2

\* The wall clock starts at 23:58 (GMT+2), so that it passes midnight.
StartMinute == 23 * 60 + 58

\* The instants at which the page is loaded: what new Date() yields in
\* fetchData.  month, date, day are getMonth() + 1, getDate(), getDay();
\* wholeDaysOfYear is floor((now - startOfYear) / day) and
\* daysSinceKnownNewMoon is floor((now - knownNewMoon) / day).
Instants ==
  { [month |-> 11, date |-> 3, day |-> 1,
     wholeDaysOfYear |-> 306, daysSinceKnownNewMoon |-> 662] }

\* Replies of the weather service to the three endpoints tried in turn:
\* "throw" (fetch or json() fails), "empty" (no liveweer entry with a
\* numeric temp), or the temp in tenths of a degree.
WeatherThrow == [kind |-> "throw", tenths |-> 0]
WeatherEmpty == [kind |-> "empty", tenths |-> 0]
WeatherTemp(t) == [kind |-> "temp", tenths |-> t]
WeatherReplies ==
  { <<WeatherThrow, WeatherEmpty, WeatherTemp(-5)>>,
    <<WeatherEmpty, WeatherThrow, WeatherThrow>> }

\* The candidate strings the player enters.
CandidateEmpty == <<>>
CandidateShort == Chars("Duitsland")
CandidateCountries == Chars("NEDERLAND+duitsland,Nf3")
CandidateSeven == Chars("Maart!999995x")
CandidateAll ==
  Chars("zzmaartGEESTTomorrowlandroodverkeerdenederland64-307-1-5-Qb5+23:59XXXVFe")
    \o ZodiacGlyph("uE8") \o MoonGlyph("uEE")

Candidates ==
  {CandidateEmpty, CandidateShort, CandidateCountries, CandidateSeven, CandidateAll}

\* A candidate that satisfies rules 1 to 13 and not rule 14 (its runs are M
\* and XXV).
CandidateThirteen ==
  Chars("Maart!307-1-99993-XXVFe") \o ZodiacGlyph("uE8") \o MoonGlyph("uEE")

\* ------------------------------------------------------------------------
\* State
\* ------------------------------------------------------------------------

VARIABLES
  password,            \* useState('')
  showPassword,        \* useState(false)
  completedRules,      \* useState(new Set())
  maxVisibleRule,      \* useState(0)
  liveData,            \* useState(null)
  isLoadingData,       \* useState(true)
  gameComplete,        \* useState(false)
  validationFeedback,  \* useState({})
  wordleState,         \* useState({guesses: [], ...})
  wordleError,         \* useState('')
  wordrowCompleted,    \* useState(false)
  mounted,             \* whether the first render's effects have run
  fetchData,           \* the locals of fetchData while it awaits the weather
  refreshTimers,       \* setTimeout callbacks of handleRefreshData not yet run
  refreshFetches,      \* refresh callbacks awaiting the weather
  pendingLookups,      \* handleWordleGuess calls awaiting checkDutchWord
  now,                 \* the wall clock: minutes since midnight, GMT+2
  calledValidators,    \* the rule ids whose validator the last evaluation called
  evaluatedAt,         \* the clock reading of the last evaluation
  sameInputs           \* whether the last evaluation had the inputs of the one
                       \* before it: "no", "same minute" or "other minute"

evalVars ==
  <<completedRules, maxVisibleRule, gameComplete, validationFeedback,
    calledValidators, evaluatedAt, sameInputs>>
wordleVars == <<wordleState, wordleError, pendingLookups>>
refreshVars == <<refreshTimers, refreshFetches>>
vars ==
  <<password, showPassword, liveData, isLoadingData, wordrowCompleted, mounted,
    fetchData, now, evalVars, wordleVars, refreshVars>>

\* The value every setWordleState reset writes.
initialWordleState ==
  [guesses |-> <<>>, currentGuess |-> <<>>, gameWon |-> FALSE, gameOver |-> FALSE,
   maxGuesses |-> 6]

Init ==
  /\ password = <<>>
  /\ showPassword = FALSE
  /\ completedRules = {}
  /\ maxVisibleRule = 0
  /\ liveData = null
  /\ isLoadingData = TRUE
  /\ gameComplete = FALSE
  /\ validationFeedback = EmptyMap
  /\ wordleState = initialWordleState
  /\ wordleError = ""
  /\ wordrowCompleted = FALSE
  /\ mounted = FALSE
  /\ fetchData = null
  /\ refreshTimers = <<>>
  /\ refreshFetches = <<>>
  /\ pendingLookups = <<>>
  /\ now = StartMinute
  /\ calledValidators = {}
  /\ evaluatedAt = StartMinute
  /\ sameInputs = "no"

\* Variant of the effect that evaluates without the context while the
\* loading flag is up.
RunEffectWithoutContextWhileLoading(pwd, data, won, wordrow) ==
  \E r \in {evaluate(pwd, IF isLoadingData THEN null ELSE data, now)} :
      /\ completedRules' = r.completed
      /\ validationFeedback' = r.feedback
      /\ maxVisibleRule' = NextMaxVisibleRule(maxVisibleRule, pwd, r.completed)
      /\ gameComplete' = NextGameComplete(gameComplete, r.completed)
      /\ calledValidators' = r.called
      /\ evaluatedAt' = now
      /\ sameInputs' = IF /\ mounted
                          /\ pwd = password /\ data = liveData
                          /\ won = wordleState.gameWon /\ wordrow = wordrowCompleted
                         THEN IF now = evaluatedAt THEN "same minute" ELSE "other minute"
                         ELSE "no"

\* The evaluation effect run for the state a commit leaves: pwd, data, won
\* and wordrow are the new values of its dependencies.
RunEffect(pwd, data, won, wordrow) ==
  \E r \in {evaluate(pwd, data, now)} :
      /\ completedRules' = r.completed
      /\ validationFeedback' = r.feedback
      /\ maxVisibleRule' = NextMaxVisibleRule(maxVisibleRule, pwd, r.completed)
      /\ gameComplete' = NextGameComplete(gameComplete, r.completed)
      /\ calledValidators' = r.called
      /\ evaluatedAt' = now
      /\ sameInputs' = IF /\ mounted
                          /\ pwd = password /\ data = liveData
                          /\ won = wordleState.gameWon /\ wordrow = wordrowCompleted
                         THEN IF now = evaluatedAt THEN "same minute" ELSE "other minute"
                         ELSE "no"

\* The effect runs after a commit that changed one of its dependencies.  A
\* setLiveData always installs a new object, so it always counts as a change.
EffectIfChanged(pwd, data, won, wordrow, newObject) ==
  IF newObject \/ pwd # password \/ won # wordleState.gameWon \/ wordrow # wordrowCompleted
    THEN RunEffect(pwd, data, won, wordrow)
    ELSE UNCHANGED evalVars

\* Whether the page below the loading screen is rendered.
Rendered == mounted /\ ~ isLoadingData

\* ------------------------------------------------------------------------
\* Session context: fetchData (initial load) and handleRefreshData
\* ------------------------------------------------------------------------

\* fetchWeatherData: the first endpoint whose reply holds a numeric temp gives
\* Math.floor(temp); a failing or empty reply moves on; 20 when none does.
fetchWeatherData(replies) ==
  LET good == {i \in 1..Len(replies) : replies[i].kind = "temp"}
  IN  IF good = {} THEN 20
      ELSE replies[CHOOSE i \in good : \A j \in good : i <= j].tenths \div 10

\* What one run of the provider draws: Math.random() picks and the weather.
Draws(nLocations, nWords, nProblems, weather) ==
  [location : 1..nLocations, word : 1..nWords, problem : 1..nProblems,
   weather : weather]

\* First render: the effects run once.  fetchData computes the date facts
\* and suspends at await fetchWeatherData(); the evaluation effect runs.
Mount(instant) ==
  /\ ~ mounted
  /\ mounted' = TRUE
  /\ isLoadingData' = TRUE
  /\ fetchData' = Some([dayOfYear |-> instant.wholeDaysOfYear + 1,
                        dayOfWeek |-> IF instant.day = 0 THEN 7 ELSE instant.day,
                        zodiacSymbol |-> ZodiacSymbolOf(instant.month, instant.date),
                        moonPhase |-> MoonPhaseOf(instant.daysSinceKnownNewMoon)])
  /\ RunEffect(password, liveData, wordleState.gameWon, wordrowCompleted)
  /\ UNCHANGED <<password, showPassword, liveData, wordrowCompleted, now, wordleVars,
                 refreshVars>>

\* fetchData resumes: setLiveData, setWordleState, finally setIsLoadingData(false).
FetchDataResolve(draw) ==
  /\ fetchData # null
  /\ LET f == Get(fetchData)
         location == locations[draw.location]
         data == Some([dayOfYear |-> f.dayOfYear,
                       dayOfWeek |-> f.dayOfWeek,
                       zodiacSymbol |-> f.zodiacSymbol,
                       moonPhase |-> f.moonPhase,
                       temperature |-> fetchWeatherData(draw.weather),
                       wordleWord |-> fiveLetterWords[draw.word],
                       mathProblem |-> problems[draw.problem],
                       chessMove |-> chessMove,
                       countryCode |-> location.code,
                       countryName |-> location.name,
                       streetViewUrl |-> location.streetViewUrl])
     IN  /\ liveData' = data
         /\ RunEffect(password, data, FALSE, wordrowCompleted)
  /\ wordleState' = initialWordleState
  /\ isLoadingData' = FALSE
  /\ fetchData' = null
  /\ UNCHANGED <<password, showPassword, wordrowCompleted, mounted, now, wordleError,
                 pendingLookups, refreshVars>>

\* Variant of handleRefreshData whose button is also there while loading.
handleRefreshDataWhileLoading ==
  /\ mounted
  /\ isLoadingData' = TRUE
  /\ refreshTimers' = Append(refreshTimers, [liveData |-> liveData])
  /\ UNCHANGED <<password, showPassword, liveData, wordrowCompleted, mounted, fetchData, now,
                 evalVars, wordleVars, refreshFetches>>

\* onClick={handleRefreshData}: setIsLoadingData(true); setTimeout(..., 1000).
\* The callback closes over the liveData of the render that made the handler.
handleRefreshData ==
  /\ Rendered
  /\ isLoadingData' = TRUE
  /\ refreshTimers' = Append(refreshTimers, [liveData |-> liveData])
  /\ UNCHANGED <<password, showPassword, liveData, wordrowCompleted, mounted, fetchData, now,
                 evalVars, wordleVars, refreshFetches>>

\* The timer callback starts (timers of equal delay run in order): with a
\* context it suspends at await fetchWeatherData(), without one it only
\* clears the loading flag.
RefreshTimerFires ==
  /\ refreshTimers # <<>>
  /\ refreshTimers' = Tail(refreshTimers)
  /\ IF Head(refreshTimers).liveData # null
       THEN /\ refreshFetches' = Append(refreshFetches, Head(refreshTimers))
            /\ UNCHANGED isLoadingData
       ELSE /\ isLoadingData' = FALSE
            /\ UNCHANGED refreshFetches
  /\ UNCHANGED <<password, showPassword, liveData, wordrowCompleted, mounted, fetchData, now,
                 evalVars, wordleVars>>

RemoveAt(seq, i) == SubSeq(seq, 1, i - 1) \o SubSeq(seq, i + 1, Len(seq))

\* Variant of the resumed refresh callback without its setWordleState.
RefreshResolveKeepingGame(i, draw) ==
  /\ i \in 1..Len(refreshFetches)
  /\ LET old == Get(refreshFetches[i].liveData)
         location == locations[draw.location]
         data == Some([old EXCEPT !.countryCode = location.code,
                                  !.countryName = location.name,
                                  !.streetViewUrl = location.streetViewUrl,
                                  !.mathProblem = problems[draw.problem],
                                  !.temperature = fetchWeatherData(draw.weather),
                                  !.wordleWord = fiveLetterWords[draw.word]])
     IN  /\ liveData' = data
         /\ RunEffect(password, data, wordleState.gameWon, wordrowCompleted)
  /\ refreshFetches' = RemoveAt(refreshFetches, i)
  /\ wordleError' = ""
  /\ isLoadingData' = FALSE
  /\ UNCHANGED <<password, showPassword, wordrowCompleted, mounted, fetchData, now,
                 wordleState, pendingLookups, refreshTimers>>

\* Variant of the resumed refresh callback that drops the context when no
\* weather endpoint answers with a temperature.
RefreshResolveDroppingContext(i, draw) ==
  /\ i \in 1..Len(refreshFetches)
  /\ LET old == Get(refreshFetches[i].liveData)
         location == locations[draw.location]
         failed == \A k \in 1..Len(draw.weather) : draw.weather[k].kind # "temp"
         data == IF failed THEN null
                 ELSE Some([old EXCEPT !.countryCode = location.code,
                                       !.countryName = location.name,
                                       !.streetViewUrl = location.streetViewUrl,
                                       !.mathProblem = problems[draw.problem],
                                       !.temperature = fetchWeatherData(draw.weather),
                                       !.wordleWord = fiveLetterWords[draw.word]])
     IN  /\ liveData' = data
         /\ RunEffect(password, data, FALSE, wordrowCompleted)
  /\ refreshFetches' = RemoveAt(refreshFetches, i)
  /\ wordleState' = initialWordleState
  /\ wordleError' = ""
  /\ isLoadingData' = FALSE
  /\ UNCHANGED <<password, showPassword, wordrowCompleted, mounted, fetchData, now,
                 pendingLookups, refreshTimers>>

\* Variant of the resumed refresh callback that also empties the candidate
\* field.
RefreshResolveClearingCandidate(i, draw) ==
  /\ i \in 1..Len(refreshFetches)
  /\ LET old == Get(refreshFetches[i].liveData)
         location == locations[draw.location]
         data == Some([old EXCEPT !.countryCode = location.code,
                                  !.countryName = location.name,
                                  !.streetViewUrl = location.streetViewUrl,
                                  !.mathProblem = problems[draw.problem],
                                  !.temperature = fetchWeatherData(draw.weather),
                                  !.wordleWord = fiveLetterWords[draw.word]])
     IN  /\ liveData' = data
         /\ RunEffect(<<>>, data, FALSE, wordrowCompleted)
  /\ password' = <<>>
  /\ refreshFetches' = RemoveAt(refreshFetches, i)
  /\ wordleState' = initialWordleState
  /\ wordleError' = ""
  /\ isLoadingData' = FALSE
  /\ UNCHANGED <<showPassword, wordrowCompleted, mounted, fetchData, now,
                 pendingLookups, refreshTimers>>

\* Variant of the resumed refresh callback in which a weather failure ends
\* the callback before any of its writes.
RefreshResolveStoppedByFailure(i, draw) ==
  /\ i \in 1..Len(refreshFetches)
  /\ LET old == Get(refreshFetches[i].liveData)
         location == locations[draw.location]
         failed == \A k \in 1..Len(draw.weather) : draw.weather[k].kind # "temp"
         data == Some([old EXCEPT !.countryCode = location.code,
                                  !.countryName = location.name,
                                  !.streetViewUrl = location.streetViewUrl,
                                  !.mathProblem = problems[draw.problem],
                                  !.temperature = fetchWeatherData(draw.weather),
                                  !.wordleWord = fiveLetterWords[draw.word]])
     IN  IF failed
           THEN UNCHANGED <<liveData, evalVars, wordleState, wordleError, isLoadingData>>
           ELSE /\ liveData' = data
                /\ RunEffect(password, data, FALSE, wordrowCompleted)
                /\ wordleState' = initialWordleState
                /\ wordleError' = ""
                /\ isLoadingData' = FALSE
  /\ refreshFetches' = RemoveAt(refreshFetches, i)
  /\ UNCHANGED <<password, showPassword, wordrowCompleted, mounted, fetchData, now,
                 pendingLookups, refreshTimers>>

\* The refresh callback resumes: setLiveData({...liveData, ...}),
\* setWordleState, setWordleError(''), setIsLoadingData(false).
RefreshResolve(i, draw) ==
  /\ i \in 1..Len(refreshFetches)
  /\ LET old == Get(refreshFetches[i].liveData)
         location == locations[draw.location]
         data == Some([old EXCEPT !.countryCode = location.code,
                                  !.countryName = location.name,
                                  !.streetViewUrl = location.streetViewUrl,
                                  !.mathProblem = problems[draw.problem],
                                  !.temperature = fetchWeatherData(draw.weather),
                                  !.wordleWord = fiveLetterWords[draw.word]])
     IN  /\ liveData' = data
         /\ RunEffect(password, data, FALSE, wordrowCompleted)
  /\ refreshFetches' = RemoveAt(refreshFetches, i)
  /\ wordleState' = initialWordleState
  /\ wordleError' = ""
  /\ isLoadingData' = FALSE
  /\ UNCHANGED <<password, showPassword, wordrowCompleted, mounted, fetchData, now,
                 pendingLookups, refreshTimers>>

\* ------------------------------------------------------------------------
\* The candidate field, the clock and the puzzle frame's message
\* ------------------------------------------------------------------------

\* onChange={(e) => setPassword(e.target.value)}, then the evaluation effect.
SetPassword(value) ==
  /\ Rendered
  /\ value # password
  /\ password' = value
  /\ RunEffect(value, liveData, wordleState.gameWon, wordrowCompleted)
  /\ UNCHANGED <<showPassword, liveData, isLoadingData, wordrowCompleted, mounted,
                 fetchData, now, wordleVars, refreshVars>>

\* onClick={() => setShowPassword(!showPassword)} of the eye button.
ToggleShowPassword ==
  /\ Rendered
  /\ showPassword' = ~ showPassword
  /\ UNCHANGED <<password, liveData, isLoadingData, wordrowCompleted, mounted,
                 fetchData, now, evalVars, wordleVars, refreshVars>>

\* ------------------------------------------------------------------------
\* The overlay of the candidate field: highlightRomanNumerals
\* ------------------------------------------------------------------------

\* const romanValues = { 'I': 1, 'V': 5, ... } of the overlay; a missing key
\* reads as undefined, here 0.
romanValues(c) ==
  CASE c = "I" -> 1 [] c = "V" -> 5 [] c = "X" -> 10 [] c = "L" -> 50
    [] c = "C" -> 100 [] c = "D" -> 500 [] c = "M" -> 1000 [] OTHER -> 0

\* Variant of the overlay's value loop that does not step over the second
\* symbol of a subtractive pair (no i++).
RECURSIVE HighlightValueLoopWithoutSkip(_, _, _)
HighlightValueLoopWithoutSkip(romanText, i, value) ==
  IF i > Len(romanText) THEN value
  ELSE LET current == romanValues(romanText[i])
           next == IF i + 1 <= Len(romanText) THEN romanValues(romanText[i + 1]) ELSE 0
       IN  IF next # 0 /\ current < next
             THEN HighlightValueLoopWithoutSkip(romanText, i + 1, value + (next - current))
             ELSE HighlightValueLoopWithoutSkip(romanText, i + 1, value + current)

\* The overlay's value loop: for (let i = 0; i < romanText.length; i++)
RECURSIVE HighlightValueLoop(_, _, _)
HighlightValueLoop(romanText, i, value) ==
  IF i > Len(romanText) THEN value
  ELSE LET current == romanValues(romanText[i])
           next == IF i + 1 <= Len(romanText) THEN romanValues(romanText[i + 1]) ELSE 0
       IN  IF next # 0 /\ current < next
             THEN HighlightValueLoop(romanText, i + 2, value + (next - current))
             ELSE HighlightValueLoop(romanText, i + 1, value + current)

\* pwd.slice(from, to), positions counted from 0
slice(pwd, from, to) == SubSeq(pwd, from + 1, to)

\* romanPattern.exec(pwd) with the pattern's lastIndex at from: null, or the
\* next maximal run with its index (counted from 0).
romanPatternExec(pwd, from) ==
  LET found == {i \in (from + 1)..Len(pwd) : pwd[i] \in RomanSet}
  IN  IF found = {} THEN null
      ELSE LET first == CHOOSE i \in found : \A j \in found : i <= j
               last == CHOOSE j \in first..Len(pwd) :
                         /\ \A k \in first..j : pwd[k] \in RomanSet
                         /\ (j = Len(pwd) \/ pwd[j + 1] \notin RomanSet)
           IN  Some([index |-> first - 1, text |-> SubSeq(pwd, first, last)])

\* An element of parts: a piece of text, or the span around a run with its
\* key and the title of its inner span.
TextPart(text) == [kind |-> "text", text |-> text, key |-> 0, title |-> <<>>]
SpanPart(key, romanText, value) ==
  [kind |-> "span", text |-> romanText, key |-> key,
   title |-> Chars("Waarde: ") \o toString(value)]

\* while ((match = romanPattern.exec(pwd)) !== null) { ... }: parts and
\* lastIndex when the loop ends.
RECURSIVE HighlightLoop(_, _, _)
HighlightLoop(pwd, lastIndex, parts) ==
  LET match == romanPatternExec(pwd, lastIndex)
  IN  IF match = null THEN [parts |-> parts, lastIndex |-> lastIndex]
      ELSE LET m == Get(match)
               before == IF m.index > lastIndex
                           THEN Append(parts, TextPart(slice(pwd, lastIndex, m.index)))
                           ELSE parts
               value == HighlightValueLoop(m.text, 1, 0)
           IN  HighlightLoop(pwd, m.index + Len(m.text),
                             Append(before, SpanPart(m.index, m.text, value)))

\* parts after the loop and the push of the text behind the last run.
HighlightParts(pwd) ==
  LET r == HighlightLoop(pwd, 0, <<>>)
  IN  IF r.lastIndex < Len(pwd)
        THEN Append(r.parts, TextPart(slice(pwd, r.lastIndex, Len(pwd))))
        ELSE r.parts

\* What highlightRomanNumerals returns: the string itself or the parts.
StringResult(pwd) == [kind |-> "string", text |-> pwd, parts |-> <<>>]
PartsResult(parts) == [kind |-> "parts", text |-> <<>>, parts |-> parts]

\* highlightRomanNumerals(pwd) in a render: maxVisibleRule and completedRules
\* are those of the state.
highlightRomanNumerals(pwd) ==
  IF pwd = <<>> THEN StringResult(pwd)
  ELSE IF ~ (maxVisibleRule >= 14) \/ 14 \in completedRules THEN StringResult(pwd)
  ELSE LET parts == HighlightParts(pwd)
       IN  IF Len(parts) > 1 THEN PartsResult(parts) ELSE StringResult(pwd)

\* The overlay of the render: {showPassword && maxVisibleRule >= 14 &&
\* !completedRules.has(14) && password && (...highlightRomanNumerals(password))}
Overlay ==
  IF Rendered /\ showPassword /\ maxVisibleRule >= 14 /\ 14 \notin completedRules
       /\ password # <<>>
    THEN Some(highlightRomanNumerals(password))
    ELSE null

\* A minute passes.  Nothing of the program runs.
Tick ==
  /\ (now + 24 * 60 - StartMinute) % (24 * 60) < MaxTicks
  /\ now' = (now + 1) % (24 * 60)
  /\ UNCHANGED <<password, showPassword, liveData, isLoadingData, wordrowCompleted, mounted,
                 fetchData, evalVars, wordleVars, refreshVars>>

MessageOrigins == {"https://puzzleme.amuselabs.com", "https://example.org"}
MessageTypes == {"puzzleComplete", "puzzleStarted"}

\* Variant of handleMessage without the test of event.origin.
handleMessageAnyOrigin(origin, type) ==
  /\ mounted
  /\ IF type = "puzzleComplete"
       THEN /\ wordrowCompleted' = TRUE
            /\ EffectIfChanged(password, liveData, wordleState.gameWon, TRUE, FALSE)
       ELSE UNCHANGED <<wordrowCompleted, evalVars>>
  /\ UNCHANGED <<password, showPassword, liveData, isLoadingData, mounted, fetchData, now,
                 wordleVars, refreshVars>>

\* handleMessage of the window 'message' listener.
handleMessage(origin, type) ==
  /\ mounted
  /\ IF origin = "https://puzzleme.amuselabs.com" /\ type = "puzzleComplete"
       THEN /\ wordrowCompleted' = TRUE
            /\ EffectIfChanged(password, liveData, wordleState.gameWon, TRUE, FALSE)
       ELSE UNCHANGED <<wordrowCompleted, evalVars>>
  /\ UNCHANGED <<password, showPassword, liveData, isLoadingData, mounted, fetchData, now,
                 wordleVars, refreshVars>>

\* ------------------------------------------------------------------------
\* The word-guessing mini-game
\* ------------------------------------------------------------------------

\* Replies of woordenlijst.org: fetch or json() throws, the body is not an
\* array, or it is an array of entries, each given by its woord ('' for an
\* entry without one).
DictThrow == [kind |-> "throw", data |-> <<>>]
DictObject == [kind |-> "object", data |-> <<>>]
DictArray(entries) == [kind |-> "array", data |-> entries]
DictionaryReplies ==
  { DictThrow, DictObject, DictArray(<<>>),
    DictArray(<<Chars("waterval"), Chars("water")>>),
    DictArray(<<<<>>, Chars("Licht")>>) }

\* Variant of checkDutchWord that answers true when the lookup throws.
checkDutchWordFailOpen(word, reply) ==
  IF reply.kind = "throw" THEN TRUE
  ELSE /\ reply.kind = "array"
       /\ \E k \in 1..Len(reply.data) :
            /\ reply.data[k] # <<>>
            /\ toLowerCase(reply.data[k]) = toLowerCase(word)

\* checkDutchWord: Array.isArray(data) && data.some(entry => entry.woord &&
\* entry.woord.toLowerCase() === word.toLowerCase()); false when it throws.
checkDutchWord(word, reply) ==
  IF reply.kind = "throw" THEN FALSE
  ELSE /\ reply.kind = "array"
       /\ \E k \in 1..Len(reply.data) :
            /\ reply.data[k] # <<>>
            /\ toLowerCase(reply.data[k]) = toLowerCase(word)

NotAWord == "Dit is geen geldig Nederlands woord volgens woordenlijst.org"

\* What the player types into the guess field.
TypedValues == {Chars("water"), Chars("Waters"), Chars("wat")}

\* Whether the mini-game panel is rendered (rule.showWordle && liveData) and,
\* in it, the guess field (!wordleState.gameOver).  No entry of rules carries
\* showWordle; the panel is modelled as belonging to a revealed rule.
WordlePanel == Rendered /\ liveData # null

\* onChange of the guess field
ChangeGuess(typed) ==
  /\ WordlePanel
  /\ ~ wordleState.gameOver
  /\ wordleState' = [wordleState EXCEPT
                       !.currentGuess = SubSeq(toUpperCase(typed), 1, Min(5, Len(typed)))]
  /\ wordleError' = ""
  /\ UNCHANGED <<password, showPassword, liveData, isLoadingData, wordrowCompleted, mounted,
                 fetchData, now, evalVars, pendingLookups, refreshVars>>

\* Enter in the guess field with five letters, or the Raad button (disabled
\* unless five letters): handleWordleGuess(wordleState.currentGuess) up to
\* its await.  The call keeps the wordleState and liveData of its render.
SubmitGuess ==
  /\ WordlePanel
  /\ ~ wordleState.gameOver
  /\ Len(wordleState.currentGuess) = 5
  /\ Len(pendingLookups) < MaxPending
  /\ pendingLookups' = Append(pendingLookups,
                              [guessUpper |-> toUpperCase(wordleState.currentGuess),
                               wordleState |-> wordleState,
                               liveData |-> liveData])
  /\ UNCHANGED <<password, showPassword, liveData, isLoadingData, wordrowCompleted, mounted,
                 fetchData, now, evalVars, wordleState, wordleError, refreshVars>>

\* Variant of GuessedState that ends the round by the number of guesses only.
GuessedStateOverByCount(call) ==
  LET newGuesses == Append(call.wordleState.guesses, call.guessUpper)
      gameWon == call.guessUpper = toUpperCase(Get(call.liveData).wordleWord)
      gameOver == Len(newGuesses) >= call.wordleState.maxGuesses
  IN  [call.wordleState EXCEPT !.guesses = newGuesses,
                               !.currentGuess = <<>>,
                               !.gameWon = gameWon,
                               !.gameOver = gameOver]

\* The wordleState handleWordleGuess writes for a valid guess.
GuessedState(call) ==
  LET newGuesses == Append(call.wordleState.guesses, call.guessUpper)
      gameWon == call.guessUpper = toUpperCase(Get(call.liveData).wordleWord)
      gameOver == gameWon \/ Len(newGuesses) >= call.wordleState.maxGuesses
  IN  [call.wordleState EXCEPT !.guesses = newGuesses,
                               !.currentGuess = <<>>,
                               !.gameWon = gameWon,
                               !.gameOver = gameOver]

\* handleWordleGuess resumes after await checkDutchWord(guessUpper).
GuessResolve(i, reply) ==
  /\ i \in 1..Len(pendingLookups)
  /\ pendingLookups' = RemoveAt(pendingLookups, i)
  /\ IF ~ checkDutchWord(pendingLookups[i].guessUpper, reply)
       THEN /\ wordleError' = NotAWord
            /\ UNCHANGED <<wordleState, evalVars>>
       ELSE /\ wordleError' = ""
            /\ wordleState' = GuessedState(pendingLookups[i])
            /\ EffectIfChanged(password, liveData, wordleState'.gameWon,
                               wordrowCompleted, FALSE)
  /\ UNCHANGED <<password, showPassword, liveData, isLoadingData, wordrowCompleted, mounted,
                 fetchData, now, refreshVars>>

\* onClick={resetWordleGame}, rendered when wordleState.gameOver
resetWordleGame ==
  /\ WordlePanel
  /\ wordleState.gameOver
  /\ wordleState' = initialWordleState
  /\ wordleError' = ""
  /\ EffectIfChanged(password, liveData, FALSE, wordrowCompleted, FALSE)
  /\ UNCHANGED <<password, showPassword, liveData, isLoadingData, wordrowCompleted, mounted,
                 fetchData, now, pendingLookups, refreshVars>>

\* ------------------------------------------------------------------------
\* Specifications
\* ------------------------------------------------------------------------

AllDraws == Draws(NumLocations, NumWords, NumProblems, WeatherReplies)

\* Every event of the page.
Next ==
  \/ \E instant \in Instants : Mount(instant)
  \/ \E draw \in AllDraws : FetchDataResolve(draw)
  \/ handleRefreshData
  \/ RefreshTimerFires
  \/ \E i \in 1..Len(refreshFetches), draw \in AllDraws : RefreshResolve(i, draw)
  \/ \E value \in Candidates : SetPassword(value)
  \/ ToggleShowPassword
  \/ Tick
  \/ \E origin \in MessageOrigins, type \in MessageTypes : handleMessage(origin, type)
  \/ \E typed \in TypedValues : ChangeGuess(typed)
  \/ SubmitGuess
  \/ \E i \in 1..Len(pendingLookups), reply \in DictionaryReplies : GuessResolve(i, reply)
  \/ resetWordleGame

Spec == Init /\ [][Next]_vars

\* The rule engine: the player edits the candidate and refreshes the context
\* while the clock runs.  The mini-game is left alone, and of the draws only
\* the location varies (no rule reads the word, the problem's expression or
\* the temperature).
EngineDraws == Draws(NumLocations, 1, 1, {<<WeatherEmpty, WeatherThrow, WeatherThrow>>})

EngineNext ==
  \/ \E instant \in Instants : Mount(instant)
  \/ \E draw \in EngineDraws : FetchDataResolve(draw)
  \/ handleRefreshData
  \/ RefreshTimerFires
  \/ \E i \in 1..Len(refreshFetches), draw \in EngineDraws : RefreshResolve(i, draw)
  \/ \E value \in Candidates : SetPassword(value)
  \/ Tick
  \/ \E origin \in MessageOrigins, type \in MessageTypes : handleMessage(origin, type)

EngineSpec == Init /\ [][EngineNext]_vars

\* The mini-game within one session context: the player types, submits and
\* resets while lookups resolve in any order.  The candidate stays empty, the
\* clock stands still and the context is not refreshed; only the target word
\* varies between runs.
WordleDraws == Draws(1, NumWords, 1, {<<WeatherEmpty, WeatherThrow, WeatherThrow>>})

WordleNext ==
  \/ \E instant \in Instants : Mount(instant)
  \/ \E draw \in WordleDraws : FetchDataResolve(draw)
  \/ \E typed \in TypedValues : ChangeGuess(typed)
  \/ SubmitGuess
  \/ \E i \in 1..Len(pendingLookups), reply \in DictionaryReplies : GuessResolve(i, reply)
  \/ resetWordleGame

WordleSpec == Init /\ [][WordleNext]_vars

\* Rounds of the mini-game across refreshes: the player types one word,
\* submits it while earlier lookups are still out, resets and refreshes;
\* lookups are answered (the word is listed, or the request fails) in any
\* order, also after a refresh has drawn another target word.  The candidate
\* stays empty and the clock stands still.
RoundTyped == {Chars("water")}
RoundReplies == {DictThrow, DictArray(<<Chars("water")>>)}

RoundNext ==
  \/ \E instant \in Instants : Mount(instant)
  \/ \E draw \in WordleDraws : FetchDataResolve(draw)
  \/ handleRefreshData
  \/ RefreshTimerFires
  \/ \E i \in 1..Len(refreshFetches), draw \in WordleDraws : RefreshResolve(i, draw)
  \/ \E typed \in RoundTyped : ChangeGuess(typed)
  \/ SubmitGuess
  \/ \E i \in 1..Len(pendingLookups), reply \in RoundReplies : GuessResolve(i, reply)
  \/ resetWordleGame

RoundSpec == Init /\ [][RoundNext]_vars

\* A whole session: loads and refreshes that draw any location and any
\* weather, messages of the puzzle frame, candidates typed and cleared, and
\* the mini-game played with one lookup at a time (the player waits for the
\* answer).  The clock stands still and the target word is always the first.
SessionCandidates == {CandidateEmpty, CandidateShort, CandidateAll}
SessionDraws == Draws(NumLocations, 1, 1, WeatherReplies)

SessionNext ==
  \/ \E instant \in Instants : Mount(instant)
  \/ \E draw \in SessionDraws : FetchDataResolve(draw)
  \/ handleRefreshData
  \/ RefreshTimerFires
  \/ \E i \in 1..Len(refreshFetches), draw \in SessionDraws : RefreshResolve(i, draw)
  \/ \E value \in SessionCandidates : SetPassword(value)
  \/ \E origin \in MessageOrigins, type \in MessageTypes : handleMessage(origin, type)
  \/ \E typed \in TypedValues : ChangeGuess(typed)
  \/ (pendingLookups = <<>> /\ SubmitGuess)
  \/ \E i \in 1..Len(pendingLookups), reply \in DictionaryReplies : GuessResolve(i, reply)
  \/ resetWordleGame

SessionSpec == Init /\ [][SessionNext]_vars

\* Loads and refreshes with the progress the platform gives: the player
\* types and clears a candidate, shows or hides it and asks for refreshes,
\* the puzzle frame sends messages; the first render's effects run, a timer
\* that was set fires, and each weather request is answered or fails, so
\* fetchData and the refresh callback resume.
RefreshNext ==
  \/ \E instant \in Instants : Mount(instant)
  \/ \E draw \in SessionDraws : FetchDataResolve(draw)
  \/ handleRefreshData
  \/ RefreshTimerFires
  \/ \E i \in 1..Len(refreshFetches), draw \in SessionDraws : RefreshResolve(i, draw)
  \/ \E value \in {CandidateEmpty, CandidateShort} : SetPassword(value)
  \/ ToggleShowPassword
  \/ \E origin \in MessageOrigins, type \in MessageTypes : handleMessage(origin, type)

FairRefreshSpec ==
  /\ Init /\ [][RefreshNext]_vars
  /\ WF_vars(\E instant \in Instants : Mount(instant))
  /\ WF_vars(\E draw \in SessionDraws : FetchDataResolve(draw))
  /\ WF_vars(RefreshTimerFires)
  /\ WF_vars(\E i \in 1..Len(refreshFetches), draw \in SessionDraws : RefreshResolve(i, draw))

\* The validators as functions of the candidate: into the empty field of a
\* loaded page the player pastes a run of Roman symbols of up to MaxRunLen
\* symbols, XXXV or MCMXC, a candidate of up to MaxLength letters a, or up
\* to MaxNines nines followed by a few more digits and letters, or a text
\* that puts Roman symbols, lower-case letters and blanks around XXXV.
RomanRuns ==
  UNION {[1..n -> RomanSet] : n \in 1..MaxRunLen} \cup {Chars("XXXV"), Chars("MCMXC")}
LengthCandidates == {[k \in 1..n |-> "a"] : n \in 1..MaxLength}
DigitTails ==
  {<<>>, Chars("x"), Chars("4"), Chars("5"), Chars("6"), Chars("x5"), Chars("50"),
   Chars("0x5y"), Chars("14")}
DigitCandidates ==
  {[k \in 1..n |-> "9"] \o tail : n \in 0..MaxNines, tail \in DigitTails}
RunEnds == {<<>>, Chars("I"), Chars("i"), Chars("M"), Chars("m"), Chars("a"), Chars(" X")}
RunCores == {Chars("XXXV"), Chars("xxxv"), Chars("XXXv"), Chars("XX XV"), Chars("XXXIV")}
RunTexts == {front \o core \o back : front \in RunEnds, core \in RunCores, back \in RunEnds}
ValidatorCandidates == RomanRuns \cup LengthCandidates \cup DigitCandidates \cup RunTexts

ValidatorNext ==
  \/ \E instant \in Instants : Mount(instant)
  \/ \E draw \in EngineDraws : FetchDataResolve(draw)
  \/ \E value \in ValidatorCandidates : (password = <<>> /\ SetPassword(value))

ValidatorSpec == Init /\ [][ValidatorNext]_vars

\* The overlay: the player reveals rule 14 with CandidateThirteen, shows or
\* hides the field's text, and replaces the field's content by a short text
\* of Roman symbols, lower-case letters and blanks, or clears it.
OverlayTexts == RomanRuns \cup RunTexts \cup {Chars("abc"), Chars("aXbVc")}
OverlayDraws == Draws(1, 1, 1, {<<WeatherEmpty, WeatherThrow, WeatherThrow>>})

OverlayNext ==
  \/ \E instant \in Instants : Mount(instant)
  \/ \E draw \in OverlayDraws : FetchDataResolve(draw)
  \/ ToggleShowPassword
  \/ \E value \in {CandidateEmpty, CandidateThirteen} : SetPassword(value)
  \/ \E value \in OverlayTexts :
       (password \in {CandidateEmpty, CandidateThirteen} /\ SetPassword(value))

OverlaySpec == Init /\ [][OverlayNext]_vars

\* The letter colours as a function of guess and target: the target and the
\* entry in the guess field are drawn from all five-letter words over three
\* letters, in a page that has loaded and shows an empty candidate; the
\* entry is submitted once and the dictionary lists it.  (No rule reads the
\* target word, so the evaluation results are those of any loaded page.)
ScoreLetters == {"A", "B", "C"}
ScoreWords == [1..5 -> ScoreLetters]

ScoreContext(instant, target) ==
  Some([dayOfYear |-> instant.wholeDaysOfYear + 1,
        dayOfWeek |-> IF instant.day = 0 THEN 7 ELSE instant.day,
        zodiacSymbol |-> ZodiacSymbolOf(instant.month, instant.date),
        moonPhase |-> MoonPhaseOf(instant.daysSinceKnownNewMoon),
        temperature |-> 20,
        wordleWord |-> target,
        mathProblem |-> problems[1],
        chessMove |-> chessMove,
        countryCode |-> locations[1].code,
        countryName |-> locations[1].name,
        streetViewUrl |-> locations[1].streetViewUrl])

ScoreInit ==
  \E instant \in Instants :
    \E r \in {evaluate(<<>>, ScoreContext(instant, fiveLetterWords[1]), StartMinute)} :
      \E target \in ScoreWords, guess \in ScoreWords :
        /\ password = <<>>
        /\ showPassword = FALSE
        /\ completedRules = r.completed
        /\ maxVisibleRule = 0
        /\ liveData = ScoreContext(instant, target)
        /\ isLoadingData = FALSE
        /\ gameComplete = FALSE
        /\ validationFeedback = r.feedback
        /\ wordleState = [initialWordleState EXCEPT !.currentGuess = guess]
        /\ wordleError = ""
        /\ wordrowCompleted = FALSE
        /\ mounted = TRUE
        /\ fetchData = null
        /\ refreshTimers = <<>>
        /\ refreshFetches = <<>>
        /\ pendingLookups = <<>>
        /\ now = StartMinute
        /\ calledValidators = r.called
        /\ evaluatedAt = StartMinute
        /\ sameInputs = "no"

ScoreNext ==
  \/ (pendingLookups = <<>> /\ SubmitGuess)
  \/ \E i \in 1..Len(pendingLookups) :
       GuessResolve(i, DictArray(<<pendingLookups[i].guessUpper>>))

ScoreSpec == ScoreInit /\ [][ScoreNext]_vars

\* ------------------------------------------------------------------------
\* Properties of the rule engine (checked under EngineSpec)
\* ------------------------------------------------------------------------

\* C1: across steps in which the candidate is and stays non-empty, the
\* visible rule count never decreases, whatever happens to the satisfied set.
C1_VisibleCountNeverDecreases ==
  [][(password # <<>> /\ password' # <<>>) => maxVisibleRule' >= maxVisibleRule]_vars

\* A non-empty candidate whose satisfied prefix alone would show fewer rules
\* than are shown: the satisfied set shrank and the count was kept.
C1_Witness ==
  /\ password # <<>>
  /\ maxVisibleRule > NewMaxVisible(completedRules)

\* C2: once the effect has run, the visible rule count is 0 exactly when the
\* candidate is empty (and so at least 1 when it is not).
C2_ZeroIffCandidateEmpty ==
  mounted => ((maxVisibleRule = 0) <=> (password = <<>>))

\* The candidate was cleared after every rule had been revealed.
C2_Witness ==
  /\ mounted
  /\ gameComplete
  /\ password = <<>>
  /\ maxVisibleRule = 0

\* The length k of the longest prefix 1..k of rule ids inside a set.
LongestPrefix(ids) ==
  CHOOSE k \in 0..25 : /\ \A id \in 1..k : id \in ids
                       /\ (k = 25 \/ (k + 1) \notin ids)

\* C3: for a non-empty candidate the visible count after a step is
\* max(previous count, min(k + 1, 25)) with k the longest satisfied prefix,
\* and lies in 1..25.
C3_VisibleCountFormula ==
  [][(mounted' /\ password' # <<>>) =>
       /\ maxVisibleRule' = Max(maxVisibleRule,
                                Min(LongestPrefix(completedRules') + 1, 25))
       /\ maxVisibleRule' \in 1..25]_vars

\* All 25 rules satisfied: k + 1 = 26 is capped at 25.
C3_Witness ==
  /\ password # <<>>
  /\ LongestPrefix(completedRules) = 25
  /\ maxVisibleRule = 25

\* The ids of the rules marked requiresLiveData.
ContextIds == {id \in 1..25 : rules[id].requiresLiveData}

\* C4: while liveData is absent no requiresLiveData rule has its validator
\* called, is satisfied or has a feedback entry; the same holds for the
\* evaluation of every candidate against an absent context.
C4_NoContextRuleWithoutContext ==
  liveData = null =>
    /\ ContextIds \cap (calledValidators \cup completedRules
                          \cup DOMAIN validationFeedback) = {}
    /\ \A c \in Candidates : \A r \in {evaluate(c, null, now)} :
         ContextIds \cap (r.called \cup r.completed \cup DOMAIN r.feedback) = {}

\* The effect has run without a context and did call validators.
C4_Witness ==
  /\ mounted
  /\ liveData = null
  /\ calledValidators # {}
  /\ calledValidators \cap ContextIds = {}

\* The satisfied set computed from the validators alone.
SatisfiedByValidators(pwd, data, minute) ==
  {id \in 1..25 : RuleApplies(rules[id], data) /\ validator(id, pwd, data, minute)}

\* C5: no rule id is both satisfied and a key of the feedback map, and the
\* satisfied set is what the validators alone give.
C5_FeedbackNeverSatisfies ==
  mounted =>
    /\ completedRules \cap DOMAIN validationFeedback = {}
    /\ completedRules = SatisfiedByValidators(password, liveData, evaluatedAt)

\* Rule 21 has feedback and is unsatisfied while a later rule is satisfied.
C5_Witness ==
  /\ 21 \in DOMAIN validationFeedback
  /\ 21 \notin completedRules
  /\ 22 \in completedRules

\* Whether name occurs in pwd when letter case is ignored.
ContainsIgnoringCase(pwd, name) ==
  \E i \in 1..Len(pwd) :
    /\ i + Len(name) - 1 <= Len(pwd)
    /\ toLowerCase(SubSeq(pwd, i, i + Len(name) - 1)) = toLowerCase(name)

\* C6: with a context, a candidate naming the target country (in any letter
\* case, with or without other countries) satisfies rule 21 and has no
\* feedback for it; one naming only other recognised countries leaves 21
\* unsatisfied with a non-empty feedback entry.
C6_GeographyRule ==
  (mounted /\ liveData # null) =>
    LET target == Get(liveData).countryName
        others == {countries[i] : i \in 1..Len(countries)} \ {toLowerCase(target)}
    IN  /\ ContainsIgnoringCase(password, target) =>
             /\ 21 \in completedRules
             /\ 21 \notin DOMAIN validationFeedback
        /\ (/\ ~ ContainsIgnoringCase(password, target)
            /\ \E c \in others : ContainsIgnoringCase(password, c)) =>
             /\ 21 \notin completedRules
             /\ 21 \in DOMAIN validationFeedback
             /\ validationFeedback[21] # <<>>

\* The target country in capitals next to another country: satisfied.
C6_Witness ==
  /\ liveData # null
  /\ Get(liveData).countryCode = "NL"
  /\ password = CandidateCountries
  /\ 21 \in completedRules
  /\ 21 \notin DOMAIN validationFeedback

\* C7: after the effect has run, gameComplete holds exactly when all 25 rule
\* ids are satisfied.
C7_CompleteIffAllSatisfied ==
  mounted => (gameComplete <=> completedRules = 1..25)

ReportsValid(word, reply) ==
  /\ reply.kind = "array"
  /\ \E k \in DOMAIN reply.data :
       /\ Len(reply.data[k]) > 0
       /\ toUpperCase(reply.data[k]) = toUpperCase(word)

\* C9: when the lookup of a submitted guess fails or does not list the word,
\* the resumed handler appends nothing to guesses, leaves gameWon, gameOver
\* and currentGuess as they are and sets a non-empty wordleError.
C9_InvalidGuessNotRecorded ==
  [][\A i \in 1..Len(pendingLookups), reply \in DictionaryReplies :
       (/\ GuessResolve(i, reply)
        /\ ~ ReportsValid(pendingLookups[i].guessUpper, reply)) =>
         /\ wordleState'.guesses = wordleState.guesses
         /\ wordleState'.gameWon = wordleState.gameWon
         /\ wordleState'.gameOver = wordleState.gameOver
         /\ wordleState'.currentGuess = wordleState.currentGuess
         /\ wordleError' # ""]_vars

\* A rejected guess after an accepted one: the reason is shown, the entry
\* is still in the field and no lookup is left.
C9_Witness ==
  /\ wordleError # ""
  /\ Len(wordleState.guesses) = 1
  /\ Len(wordleState.currentGuess) = 5
  /\ pendingLookups = <<>>

C13_ContextResetsGame ==
  [][(\/ liveData' # liveData
      \/ (fetchData # null /\ fetchData' = null)
      \/ Len(refreshFetches') < Len(refreshFetches)) =>
       /\ liveData' # null
       /\ wordleState'.guesses = <<>>
       /\ wordleState'.currentGuess = <<>>
       /\ ~ wordleState'.gameWon
       /\ ~ wordleState'.gameOver]_vars

\* A lookup started under an earlier context, with a full entry in the
\* field, is still pending after a refresh installed another context: the
\* entry is gone.
C13_Witness ==
  /\ liveData # null
  /\ pendingLookups # <<>>
  /\ pendingLookups[1].liveData # liveData
  /\ Len(pendingLookups[1].wordleState.currentGuess) = 5
  /\ wordleState = initialWordleState

\* The loads and refreshes that have been started and not yet finished.
InFlight ==
  Len(refreshTimers) + Len(refreshFetches) + (IF fetchData # null THEN 1 ELSE 0)

\* C14: at most one load or refresh is in flight, and it keeps the loading
\* screen up; so a refresh that resumes is the only and hence the most
\* recently started one, and none is outstanding after it.
C14_LatestRefreshWins ==
  /\ [](InFlight <= 1 /\ (InFlight = 1 => isLoadingData))
  /\ [][Len(refreshFetches') < Len(refreshFetches) =>
          /\ Len(refreshFetches) = 1 /\ refreshTimers = <<>> /\ fetchData = null
          /\ refreshFetches' = <<>> /\ refreshTimers' = <<>>
          /\ \E draw \in SessionDraws : RefreshResolve(1, draw)]_vars

\* A refresh awaits its weather reply; it was started under the context that
\* an earlier refresh installed after a lookup had been submitted.
C14_Witness ==
  /\ Len(refreshFetches) = 1
  /\ isLoadingData
  /\ pendingLookups # <<>>
  /\ pendingLookups[1].liveData # refreshFetches[1].liveData

\* Whether no weather endpoint of a draw answers with a temperature.
WeatherFails(draw) ==
  \A k \in 1..Len(draw.weather) : draw.weather[k].kind # "temp"

C16_WordrowLatch ==
  /\ ~ wordrowCompleted
  /\ [][/\ wordrowCompleted => wordrowCompleted'
        /\ (~ wordrowCompleted /\ wordrowCompleted') =>
             handleMessage("https://puzzleme.amuselabs.com", "puzzleComplete")
        /\ \A origin \in MessageOrigins, type \in MessageTypes :
             (/\ ~ (origin = "https://puzzleme.amuselabs.com" /\ type = "puzzleComplete")
              /\ handleMessage(origin, type)) =>
               wordrowCompleted' = wordrowCompleted]_vars

\* The flag is up while a candidate is typed, the mini-game has been reset
\* by a refresh after a submission, and another refresh is in flight.
C16_Witness ==
  /\ wordrowCompleted
  /\ password # <<>>
  /\ refreshFetches # <<>>
  /\ pendingLookups # <<>>
  /\ pendingLookups[1].liveData # liveData

\* ------------------------------------------------------------------------
\* Properties of the letter colours (checked under ScoreSpec)
\* ------------------------------------------------------------------------

\* The two-pass scoring: the second pass scans the positions from the left
\* with, per letter, the occurrences of the target that the exact matches
\* and the earlier partial matches have not consumed.
RECURSIVE TwoPassScan(_, _, _, _, _)
TwoPassScan(g, t, i, remaining, acc) ==
  IF i > Len(g) THEN acc
  ELSE IF g[i] = t[i]
    THEN TwoPassScan(g, t, i + 1, remaining, Append(acc, "Exact"))
    ELSE IF remaining[g[i]] > 0
      THEN TwoPassScan(g, t, i + 1, [remaining EXCEPT ![g[i]] = @ - 1],
                       Append(acc, "Partial"))
      ELSE TwoPassScan(g, t, i + 1, remaining, Append(acc, "Absent"))

TwoPass(guess, target) ==
  LET g == toUpperCase(guess)
      t == toUpperCase(target)
      letters == {g[k] : k \in 1..Len(g)} \cup {t[k] : k \in 1..Len(t)}
      remaining == [c \in letters |->
                      Cardinality({k \in 1..Len(t) : t[k] = c})
                        - Cardinality({k \in 1..Len(g) : g[k] = c /\ t[k] = c})]
  IN  TwoPassScan(g, t, 1, remaining, <<>>)

\* The class a colour stands for.
ClassOf(status) ==
  CASE status = "bg-green-500 text-white" -> "Exact"
    [] status = "bg-yellow-500 text-white" -> "Partial"
    [] status = "bg-gray-400 text-white" -> "Absent"
    [] OTHER -> "None"

\* The classes getLetterStatus gives the five positions of a guess.
Classes(guess, data) ==
  [p \in 1..5 |-> ClassOf(getLetterStatus(guess[p], p - 1, guess, data))]

\* The same context with the target word in lower case.
LowerTarget(data) ==
  Some([Get(data) EXCEPT !.wordleWord = toLowerCase(@)])

\* C17: every recorded guess is coloured as the two-pass scoring classifies
\* it against the target, and the colours are the same for guess and target
\* in lower case.
C17_MatchesTwoPass ==
  \A row \in 1..Len(wordleState.guesses) :
    LET guess == wordleState.guesses[row]
    IN  /\ Classes(guess, liveData) = TwoPass(guess, Get(liveData).wordleWord)
        /\ Classes(toLowerCase(guess), LowerTarget(liveData)) = Classes(guess, liveData)
        /\ Classes(toLowerCase(guess), liveData) = Classes(guess, liveData)

\* A recorded guess with a repeated letter of which the first occurrence is
\* Absent and a later one Exact, and with a Partial letter.
C17_Witness ==
  /\ Len(wordleState.guesses) = 1
  /\ Get(liveData).wordleWord = Chars("BACCC")
  /\ wordleState.guesses[1] = Chars("AABAA")
  /\ Classes(wordleState.guesses[1], liveData)
       = <<"Absent", "Exact", "Partial", "Absent", "Absent">>

\* How often a letter occurs in a word.
Occurrences(word, c) == Cardinality({k \in 1..Len(word) : word[k] = c})

\* C18: in every recorded guess, each letter is Exact or Partial at exactly
\* min(its occurrences in the guess, its occurrences in the target)
\* positions.
C18_CreditedAtMostTargetCount ==
  \A row \in 1..Len(wordleState.guesses) :
    LET guess == wordleState.guesses[row]
        target == toUpperCase(Get(liveData).wordleWord)
        classes == Classes(guess, liveData)
    IN  \A c \in ScoreLetters :
          Cardinality({p \in 1..5 : guess[p] = c /\ classes[p] \in {"Exact", "Partial"}})
            = Min(Occurrences(guess, c), Occurrences(target, c))

\* A letter twice in the guess and once in the target: one Partial, one
\* Absent.
C18_Witness ==
  /\ Len(wordleState.guesses) = 1
  /\ Get(liveData).wordleWord = Chars("BBBCA")
  /\ wordleState.guesses[1] = Chars("AACCC")
  /\ Classes(wordleState.guesses[1], liveData)
       = <<"Partial", "Absent", "Absent", "Exact", "Absent">>

\* ------------------------------------------------------------------------
\* Properties of single validators (checked under ValidatorSpec)
\* ------------------------------------------------------------------------

\* The value of a Roman symbol.
SymbolValue(c) ==
  IF c = "I" THEN 1 ELSE IF c = "V" THEN 5 ELSE IF c = "X" THEN 10
  ELSE IF c = "L" THEN 50 ELSE IF c = "C" THEN 100 ELSE IF c = "D" THEN 500
  ELSE 1000

\* The left-to-right scan: a symbol smaller than its successor forms a pair
\* worth the difference, any other symbol counts for itself.
RECURSIVE ScanValue(_)
ScanValue(run) ==
  IF run = <<>> THEN 0
  ELSE IF Len(run) >= 2 /\ SymbolValue(run[1]) < SymbolValue(run[2])
    THEN (SymbolValue(run[2]) - SymbolValue(run[1])) + ScanValue(SubSeq(run, 3, Len(run)))
    ELSE SymbolValue(run[1]) + ScanValue(Tail(run))

\* C19: the value the validator of rule 14 computes for every run of Roman
\* symbols in the candidate is that of the left-to-right scan, the rule is
\* satisfied exactly when a run is worth 35, and XXXV, IV and MCMXC are
\* worth 35, 4 and 1990.
C19_RomanValueIsScan ==
  LET runs == romanMatches(password)
  IN  /\ \A k \in 1..Len(runs) : RomanValue(runs[k]) = ScanValue(runs[k])
      /\ mounted =>
           (14 \in completedRules <=> \E k \in 1..Len(runs) : ScanValue(runs[k]) = 35)
      /\ password = Chars("XXXV") => RomanValue(password) = 35
      /\ password = <<"I", "V">> => RomanValue(password) = 4
      /\ password = Chars("MCMXC") => RomanValue(password) = 1990

\* MCMXC has been typed: two subtractive pairs, worth 1990, rule 14 not
\* satisfied.
C19_Witness ==
  /\ password = Chars("MCMXC")
  /\ Len(romanMatches(password)) = 1
  /\ RomanValue(romanMatches(password)[1]) = 1990
  /\ 14 \notin completedRules

\* Whether n is a prime number.
IsPrime(n) == n >= 2 /\ \A d \in 2..(n - 1) : n % d # 0

\* C20: after an evaluation rule 25 is satisfied exactly when the length of
\* the candidate is prime; so for 2, 3, 5, 7, 11, 13 and not for 0, 1, 4, 6,
\* 8, 9, 10, 12.
C20_PrimeLength ==
  mounted =>
    /\ 25 \in completedRules <=> IsPrime(Len(password))
    /\ Len(password) \in {2, 3, 5, 7, 11, 13} => 25 \in completedRules
    /\ Len(password) \in {0, 1, 4, 6, 8, 9, 10, 12} => 25 \notin completedRules

\* A candidate of 13 letters satisfies rule 25.
C20_Witness ==
  /\ Len(password) = 13
  /\ 25 \in completedRules

\* The sum of the digit characters of a candidate, each as a digit 0..9,
\* taken digit value by digit value.
RECURSIVE WeightedDigitCount(_, _)
WeightedDigitCount(pwd, d) ==
  IF d > 9 THEN 0
  ELSE d * Cardinality({i \in 1..Len(pwd) : pwd[i] = DigitChars[d + 1]})
         + WeightedDigitCount(pwd, d + 1)

DigitSum(pwd) == WeightedDigitCount(pwd, 0)

\* C21: after an evaluation rule 7 is satisfied exactly when the candidate
\* holds a digit and its digits sum to 50; so not for a sum of 49 or 51 and
\* not for a candidate without digits.
C21_DigitSumFifty ==
  mounted =>
    /\ 7 \in completedRules <=>
         ((\E i \in 1..Len(password) : password[i] \in DigitSet) /\ DigitSum(password) = 50)
    /\ DigitSum(password) \in {49, 51} => 7 \notin completedRules
    /\ (\A i \in 1..Len(password) : password[i] \notin DigitSet) => 7 \notin completedRules

\* Nines, a zero and a five between letters: the digits sum to 50.
C21_Witness ==
  /\ password = Chars("999990x5y")
  /\ DigitSum(password) = 50
  /\ 7 \in completedRules

\* ------------------------------------------------------------------------
\* Further properties of the rule engine (checked under EngineSpec)
\* ------------------------------------------------------------------------

\* C22: a step that raises the visible rule count to v leaves the rule ids
\* 1..v-1 all in the satisfied set it computes.
C22_RevealedOnlyAfterAllBefore ==
  [][maxVisibleRule' > maxVisibleRule =>
       \A id \in 1..(maxVisibleRule' - 1) : id \in completedRules']_vars

\* Seven rules satisfied by one edit: the count stands at 8 and rule 8 is
\* not satisfied.
C22_Witness ==
  /\ password = CandidateSeven
  /\ maxVisibleRule = 8
  /\ \A id \in 1..7 : id \in completedRules
  /\ 8 \notin completedRules

\* C24: in every state after the first evaluation, a rule id is in the
\* satisfied set exactly when its validator holds of the candidate, the
\* context and the wall clock as they are now; so rule 15 is not in the set
\* once the clock has passed both minutes the candidate names.
C24_SatisfiedIffPredicateNow ==
  mounted => completedRules = SatisfiedByValidators(password, liveData, now)

\* The rule ids whose membership of the satisfied set differs, for some
\* candidate and with or without the context of the state, between a render
\* with the wordrow latch down and one with the latch up.
LatchReaders ==
  {id \in 1..25 :
     \E c \in Candidates, data \in {null, liveData} :
       (id \in newCompletedRulesInRender(c, data, wordleState.gameWon, FALSE, now))
         # (id \in newCompletedRulesInRender(c, data, wordleState.gameWon, TRUE, now))}

\* C28: exactly one rule depends on the wordrow latch: for some candidate
\* and context the satisfied set computed with the latch up differs from the
\* one computed with the latch down, in exactly one rule id.
C28_OneRuleReadsLatch ==
  mounted => Cardinality(LatchReaders) = 1

\* ------------------------------------------------------------------------
\* Further properties of the session (checked under SessionSpec)
\* ------------------------------------------------------------------------

\* C23: the visible rule count goes down only in a step that empties the
\* candidate field; every step that leaves the candidate as it is (a load
\* or refresh resuming, a submission or its result, a reset of the
\* mini-game, a message of the puzzle frame) leaves the count at least as
\* high as it was.
C23_CountLoweredOnlyByClearing ==
  [][/\ maxVisibleRule' < maxVisibleRule => (password # <<>> /\ password' = <<>>)
     /\ password' = password => maxVisibleRule' >= maxVisibleRule]_vars

\* All rules were revealed, then a refresh drew another country: rule 21 is
\* no longer satisfied, the puzzle has been completed and a lookup is
\* pending, and the count is still 25.
C23_Witness ==
  /\ password = CandidateAll
  /\ maxVisibleRule = 25
  /\ 21 \notin completedRules
  /\ wordrowCompleted
  /\ pendingLookups # <<>>

\* ------------------------------------------------------------------------
\* Further properties of single validators (checked under ValidatorSpec)
\* ------------------------------------------------------------------------

\* The maximal runs of Roman symbols of a text, each as its first and last
\* position.
MaximalRuns(text) ==
  {run \in (1..Len(text)) \X (1..Len(text)) :
     /\ run[1] <= run[2]
     /\ \A k \in run[1]..run[2] : text[k] \in RomanSet
     /\ (run[1] = 1 \/ text[run[1] - 1] \notin RomanSet)
     /\ (run[2] = Len(text) \/ text[run[2] + 1] \notin RomanSet)}

\* Whether a text holds a stretch of upper-case Roman symbols worth 35.
HoldsStretchWorth35(text) ==
  \E i \in 1..Len(text) : \E j \in i..Len(text) :
    /\ \A k \in i..j : text[k] \in RomanSet
    /\ ScanValue(SubSeq(text, i, j)) = 35

\* C25: after an evaluation rule 14 is satisfied exactly when a maximal run
\* of upper-case Roman symbols of the candidate is worth 35; a candidate
\* whose Roman symbols are all lower case has no run, and XXXVI and MXXXV do
\* not satisfy the rule.
C25_MaximalRunWorth35 ==
  mounted =>
    /\ 14 \in completedRules <=>
         \E run \in MaximalRuns(password) :
           ScanValue(SubSeq(password, run[1], run[2])) = 35
    /\ (\A k \in 1..Len(password) : password[k] \notin RomanSet) => 14 \notin completedRules
    /\ password \in {Chars("XXXVI"), Chars("MXXXV")} => 14 \notin completedRules

\* XXXV inside a longer run: the candidate holds a stretch worth 35 and
\* rule 14 is not satisfied.
C25_Witness ==
  /\ password = Chars("MXXXVI")
  /\ HoldsStretchWorth35(password)
  /\ 14 \notin completedRules

\* A step of a refresh: the click (a timer is set), the timer callback
\* starting (the timer is gone), or the callback resuming after the weather
\* request (the request is gone).  No other step changes these.
RefreshStep ==
  \/ refreshTimers' # refreshTimers
  \/ refreshFetches' # refreshFetches

\* What a refresh keeps of the context, the candidate field and the latch.
RefreshKeeps ==
  /\ liveData # null
  /\ liveData' # null
  /\ Get(liveData').dayOfYear = Get(liveData).dayOfYear
  /\ Get(liveData').dayOfWeek = Get(liveData).dayOfWeek
  /\ Get(liveData').zodiacSymbol = Get(liveData).zodiacSymbol
  /\ Get(liveData').moonPhase = Get(liveData).moonPhase
  /\ Get(liveData').chessMove = Get(liveData).chessMove
  /\ password' = password
  /\ wordrowCompleted' = wordrowCompleted

\* C30 as stated: every step of a refresh leaves the day of year, the
\* weekday, the zodiac and lunar glyphs and the chess move of the context,
\* the candidate, the wordrow latch and the visible rule count as they were.
C30_RefreshFrame ==
  [][RefreshStep => (RefreshKeeps /\ maxVisibleRule' = maxVisibleRule)]_vars

\* C30 with the count allowed to rise: every step of a refresh leaves the
\* date facts, the chess move, the candidate and the latch as they were and
\* does not lower the visible rule count.
C30_RefreshFrameCountNotLowered ==
  [][RefreshStep => (RefreshKeeps /\ maxVisibleRule' >= maxVisibleRule)]_vars

\* A refresh has replaced duitsland by nederland and kept the date facts
\* (a lookup submitted before it still holds the earlier context); the
\* candidate names nederland and all 25 rules are shown.
C30_Witness ==
  /\ password = CandidateAll
  /\ maxVisibleRule = 25
  /\ liveData # null
  /\ Get(liveData).countryCode = "NL"
  /\ pendingLookups # <<>>
  /\ Get(pendingLookups[1].liveData).countryCode = "DE"
  /\ Get(pendingLookups[1].liveData).dayOfYear = Get(liveData).dayOfYear
  /\ Get(pendingLookups[1].liveData).moonPhase = Get(liveData).moonPhase
  /\ refreshFetches = <<>>

\* ------------------------------------------------------------------------
\* Properties of the overlay (checked under OverlaySpec)
\* ------------------------------------------------------------------------

\* The maximal runs of a text from left to right.
RunsInOrder(text) ==
  LET runs == MaximalRuns(text)
  IN  [k \in 1..Cardinality(runs) |->
         CHOOSE run \in runs : Cardinality({other \in runs : other[1] < run[1]}) = k - 1]

\* The characters an overlay result shows, in order.
RECURSIVE PartsText(_)
PartsText(parts) ==
  IF parts = <<>> THEN <<>> ELSE Head(parts).text \o PartsText(Tail(parts))

ShownText(result) ==
  IF result.kind = "string" THEN result.text ELSE PartsText(result.parts)

\* The decorated segments of an overlay result, in order.
Decorated(result) == SelectSeq(result.parts, LAMBDA part : part.kind = "span")

\* C26: whenever the overlay is shown (the text is visible, rule 14 is
\* revealed and not satisfied, the candidate is not empty), its output has
\* one decorated segment per maximal run of Roman symbols, in order, each
\* with the run's text and value, and shows the candidate character for
\* character; also when the candidate is one run and nothing else.
C26_OneSegmentPerRun ==
  Overlay # null =>
    LET result == Get(Overlay)
        runs == RunsInOrder(password)
        spans == Decorated(result)
    IN  /\ Len(spans) = Len(runs)
        /\ \A k \in 1..Len(runs) :
             LET run == SubSeq(password, runs[k][1], runs[k][2])
             IN  /\ k <= Len(spans)
                 /\ spans[k].text = run
                 /\ spans[k].title = Chars("Waarde: ") \o toString(ScanValue(run))
        /\ ShownText(result) = password

\* C27: in every text the overlay's loop finds the runs that the validator
\* of rule 14 finds, in the same order, and the value it attaches to each
\* run is the value the validator computes for it.
C27_OverlayAgreesWithValidator ==
  LET spans == SelectSeq(HighlightParts(password), LAMBDA part : part.kind = "span")
      matches == romanMatches(password)
  IN  /\ Len(spans) = Len(matches)
      /\ \A k \in 1..Len(matches) :
           /\ k <= Len(spans)
           /\ spans[k].text = matches[k]
           /\ spans[k].title = Chars("Waarde: ") \o toString(RomanValue(matches[k]))

\* The overlay is shown for a text with a lower-case letter before a run
\* that holds a subtractive pair: the segment carries 1034, the validator's
\* value.
C27_Witness ==
  /\ Overlay # null
  /\ password = Chars("iXXXIVM")
  /\ Len(Decorated(Get(Overlay))) = 1
  /\ Decorated(Get(Overlay))[1].text = Chars("XXXIVM")
  /\ Decorated(Get(Overlay))[1].title = Chars("Waarde: 1034")
  /\ RomanValue(Chars("XXXIVM")) = 1034

\* ------------------------------------------------------------------------
\* Progress of loads and refreshes (checked under FairRefreshSpec)
\* ------------------------------------------------------------------------

\* C29: the loading state is always eventually cleared, after the initial
\* load and after each refresh request, whatever the weather service
\* replies; and every load or refresh in flight eventually is not.
C29_LoadingEventuallyCleared ==
  /\ isLoadingData ~> ~ isLoadingData
  /\ (InFlight > 0) ~> (InFlight = 0 /\ ~ isLoadingData)

\* A refresh whose weather requests all failed has finished: it installed a
\* context equal to the one before it, with the fallback temperature, and
\* the page is shown again for the candidate typed before it.
C29_Witness ==
  /\ mounted
  /\ ~ isLoadingData
  /\ InFlight = 0
  /\ sameInputs = "same minute"
  /\ password = CandidateShort
  /\ Get(liveData).temperature = 20

\* ------------------------------------------------------------------------
\* The rule engine without a context (checked under EngineSpec)
\* ------------------------------------------------------------------------

\* C31: while there is no context, rule 8 is not satisfied, at most 8 rules
\* are shown and the game is not complete, in the state and for the
\* evaluation of every candidate against the absent context; and a context
\* appears only when fetchData resumes, never in a step of a refresh.
C31_NoContextNoRuleEight ==
  /\ [](liveData = null =>
          /\ 8 \notin completedRules
          /\ maxVisibleRule <= 8
          /\ ~ gameComplete
          /\ \A c \in Candidates : \A r \in {evaluate(c, null, now)} :
               /\ 8 \notin r.completed
               /\ NextMaxVisibleRule(maxVisibleRule, c, r.completed) <= 8
               /\ ~ NextGameComplete(gameComplete, r.completed))
  /\ [][(liveData = null /\ liveData' # null) =>
          /\ fetchData # null /\ fetchData' = null
          /\ UNCHANGED refreshVars]_vars

\* The first evaluation has run without a context while fetchData awaits
\* the weather: rule 4 is satisfied, rule 8 is not, and the candidate that
\* satisfies every rule of a loaded page would be shown 8 rules.
C31_Witness ==
  /\ mounted
  /\ liveData = null
  /\ fetchData # null
  /\ 4 \in completedRules
  /\ 8 \notin completedRules
  /\ NewMaxVisible(evaluate(CandidateAll, null, now).completed) = 8

\* ------------------------------------------------------------------------
\* The mini-game across refreshes (checked under RoundSpec)
\* ------------------------------------------------------------------------

\* C32: in every reachable state of the mini-game, whatever the order of
\* submissions, lookup results, resets and refreshes, guesses holds at most
\* maxGuesses = 6 entries, each of exactly five characters, gameWon implies
\* gameOver, and gameOver is true exactly when gameWon is true or guesses
\* holds six entries.
C32_RoundStateConsistent ==
  /\ wordleState.maxGuesses = 6
  /\ Len(wordleState.guesses) <= wordleState.maxGuesses
  /\ \A k \in 1..Len(wordleState.guesses) : Len(wordleState.guesses[k]) = 5
  /\ wordleState.gameWon => wordleState.gameOver
  /\ wordleState.gameOver <=> (wordleState.gameWon \/ Len(wordleState.guesses) = 6)

\* Six guesses are recorded without a win while another lookup is still out
\* and a refresh has replaced the context since the page was loaded.
C32_Witness ==
  /\ Len(wordleState.guesses) = 6
  /\ wordleState.gameOver /\ ~ wordleState.gameWon
  /\ pendingLookups # <<>>
  /\ fetchData = null /\ liveData # null
  /\ pendingLookups[1].liveData # liveData

====
